---------------------------- MODULE Spec2Model ----------------------------
(***************************************************************************)
(* A model of utils/preprocessing.py: the budget splitter                  *)
(* (start_num_fromSplits), the chunking planner                            *)
(* (procsFrom_label_dir_pairs), the batch generator (genFromDPs with its   *)
(* dataFetchThread prefetch worker) and the sample-window walk of          *)
(* preprocessFromPandas_label_dir_pairs.                                   *)
(*                                                                         *)
(* Numbers that the Python code holds as floats (the splits) are held as   *)
(* integer numerators over the fixed denominator Den: the split q stands   *)
(* for the number q/Den.  With Den a power of two every such number, and   *)
(* every sum and product the code forms from them at these sizes, is an    *)
(* exact IEEE double, so the integer arithmetic below is the arithmetic    *)
(* the interpreter does.                                                   *)
(***************************************************************************)
EXTENDS Integers, Sequences, FiniteSets, TLC

(***************************************************************************)
(* Bounds of the model.                                                    *)
(***************************************************************************)
Den == 4
MaxNum == 8
MaxSplits == 3
MaxLength == 6
MaxStart == 3
MaxSamples == 6
MaxStride == 3
MaxTasks == 2
MaxChunk == 3
MaxBatch == 2
MaxOrphans == 2
MaxEntries == 2
MaxWinStart == 2
MaxWinSamples == 2
MaxRows == 2
MaxSize == 2
MaxVal == 1
MaxCount == 1
MaxMult == 6
MaxArrays == 11
MaxMegabytes == 2

VARIABLES
    splits,     \* start_num_fromSplits: the argument splits (numerators over Den)
    length,     \* start_num_fromSplits: the argument length
    SNs,        \* getGensDefaultFormat: what start_num_fromSplits returned or raised
    start,              \* procsFrom_label_dir_pairs: the argument start
    samples_per_label,  \* procsFrom_label_dir_pairs: the argument samples_per_label
    stride,             \* procsFrom_label_dir_pairs: the argument stride
    procs,              \* procsFrom_label_dir_pairs: the tasks created so far, each
                        \* with the (proc_start, proc_num) its DataProcedure carries
    proc_start,         \* procsFrom_label_dir_pairs: the loop variable of range(start, end, stride)
    plan_pc,            \* procsFrom_label_dir_pairs: "call", "loop", "returned" or "raised"
    dps,            \* genFromDPs: the task list; a task is a DataProcedure or not,
                    \* and its getData() raises or returns (X, Y) of n samples
    batch_size,     \* genFromDPs: the argument batch_size
    threading,      \* genFromDPs: the argument threading
    gen_pc,         \* genFromDPs: where the generator stands: "created", "pass"
                    \* (while True), "for" (the loop head), "slice" (the batch
                    \* loop), "yielded" (suspended at yield) or "raised"
    i,              \* genFromDPs: the loop variable i
    XY,             \* genFromDPs: the locals X, Y (one chunk, or None)
    batch_start,    \* genFromDPs: the loop variable start of the batch loop
    batch,          \* the value of the last yield, as the consumer holds it
    prev_batch,     \* the value of the yield before that (history)
    pass_batches,   \* the batches yielded since the last while True (history)
    datafetch,      \* genFromDPs: the local datafetch, a dataFetchThread
    orphans,        \* dataFetchThread objects still running that datafetch no longer names
    gen_err,        \* the exception that left the generator
    label_dir_pairs,    \* preprocessFromPandas_label_dir_pairs: the (label, directory)
                        \* pairs; a directory is its sorted files, a file the number
                        \* of entries of its NumValues frame
    pp_start,           \* preprocessFromPandas_label_dir_pairs: the argument start
    pp_samples_per_label, \* ... the argument samples_per_label
    pp_config,          \* ... what is wrong with observ_types or object_profiles, if anything
    pre_pc,             \* ... "call", "label", "file", "label_end", "returned" or "raised"
    label_idx,          \* ... the position of the loop over label_dir_pairs
    file_idx,           \* ... the position of the loop over files
    samples_read,       \* ... the local samples_read
    location,           \* ... the local location
    reads,              \* ... the entry ranges read so far, per file (history)
    pre_err,            \* ... the exception raised
    listed,             \* ... the directories listed so far (history)
    opened,             \* ... the table stores opened so far (history)
    open_stores,        \* ... the table stores open now, as (label, file) positions
    X_train,            \* ... the local X_train: per profile, per sample index, the
                        \* (label, file, entry) its tensor was made from
    X_train_indices,    \* ... the local X_train_indices
    y_train,            \* ... the local y_train: per sample index a label vector
    y_train_start,      \* ... the local y_train_start
    indices             \* ... the local indices, the permutation of the shuffle

VARIABLES
    it_profile,     \* the loop over object_profiles: the ObjectProfile at hand
    it_group,       \* the loop over groups: the rows of one entry, or no group
    it_x,           \* the local x of the loop body, as rows of vecsize values
    it_locs,        \* the positions of reversed(sort_locs) still to sort by
    it_pc           \* "group", "selected", "padded", "sorted" or "stored"

itemVars == <<it_profile, it_group, it_x, it_locs, it_pc>>

VARIABLES
    object_profiles,    \* resolveProfileMaxes: the max_size of each profile of the
                        \* argument object_profiles (<<>> is None, <<n>> is n)
    res_pairs,          \* resolveProfileMaxes: the directories of label_dir_pairs; a
                        \* directory is its sorted files, a file the row counts its
                        \* NumValues frame lists per entry
    padding_multiplier, \* resolveProfileMaxes: the argument (numerator over Den)
    unresolved,         \* resolveProfileMaxes: the local unresolved, as positions
    maxes,              \* resolveProfileMaxes: the local maxes
    res_dir,            \* resolveProfileMaxes: the position of the loop over label_dir_pairs
    res_file,           \* resolveProfileMaxes: the position of the loop over files
    res_pc              \* "call", "dir", "file", "returned" or "raised"

resVars == <<object_profiles, res_pairs, padding_multiplier, unresolved, maxes,
             res_dir, res_file, res_pc>>

VARIABLES
    xy_X,       \* XY_to_CSV, XY_to_pickle: the argument X, a list of arrays; an
                \* array is its shape and its values in row-major order
    xy_Y,       \* ... the argument Y
    xy_format,  \* "csv" for XY_to_CSV / XY_from_CSV, "pickle" for the pickle pair
    xy_files,   \* the files of the directories X/ and Y/: name and content
    xy_outX,    \* XY_from_CSV, XY_from_pickle: the returned X
    xy_outY,    \* ... the returned Y
    xy_pc       \* "call", "written", "read" or "raised"

xyVars == <<xy_X, xy_Y, xy_format, xy_files, xy_outX, xy_outY, xy_pc>>

VARIABLES
    gd_megabytes,   \* getGensDefaultFormat: the argument megabytes
    gd_max_sizes,   \* ... the max_size of each profile of object_profiles
    gd_observ,      \* ... len(observ_types)
    gd_splits,      \* ... the argument splits (numerators over Den)
    gd_length,      \* ... the argument length
    gd_batch_size,  \* ... the argument batch_size
    gd_stride,      \* ... the local stride
    gd_SNs,         \* ... the local SNs
    gd_k,           \* ... the position of the loop over SNs
    gd_all_dps,     \* ... the local all_dps: the window of every DataProcedure
    gd_max_q,       \* ... the max_q_size appended to all_datasets
    gd_pc           \* "call", "split", "procs", "returned" or "raised"

gdVars == <<gd_megabytes, gd_max_sizes, gd_observ, gd_splits, gd_length,
            gd_batch_size, gd_stride, gd_SNs, gd_k, gd_all_dps, gd_max_q, gd_pc>>

VARIABLES
    st_op,          \* the operation called: "maxMutualLength" or "getNumValFrame"
    st_dirs,        \* the directories of label_dir_pairs (of getNumValFrame:
                    \* the one file and its storeType)
    st_profiles,    \* maxMutualLength: whether object_profiles is not None
    label_totals,   \* ... the local label_totals, by position of the label
    st_d,           \* ... the position of the loop over label_dir_pairs
    st_f,           \* ... the position of the loop over files
    st_open,        \* the table stores open now, as (directory, file) positions
    st_result,      \* what the operation returned; <<>> while it has not
    st_pc           \* "dir", "file", "call", "returned" or "raised"

stVars == <<st_op, st_dirs, st_profiles, label_totals, st_d, st_f, st_open,
            st_result, st_pc>>

VARIABLES
    dec_given,      \* preprocessFromPandas_label_dir_pairs: one entry of
                    \* object_profiles as it is passed, by field
    dec_isdict,     \* ... whether that entry is a plain dictionary
    dec_profile,    \* ... the local profile after lines 218-228
    dec_err,        \* ... the error raised, "" for none
    dec_pc          \* "build", "check", "ok" or "raised"

decVars == <<dec_given, dec_isdict, dec_profile, dec_err, dec_pc>>

extVars == <<itemVars, resVars, xyVars, gdVars, stVars, decVars>>

\* What an action of one group leaves alone among the later groups.
itemOthers == <<resVars, xyVars, gdVars, stVars, decVars>>

resOthers == <<itemVars, xyVars, gdVars, stVars, decVars>>

xyOthers == <<itemVars, resVars, gdVars, stVars, decVars>>

gdOthers == <<itemVars, resVars, xyVars, stVars, decVars>>

stOthers == <<itemVars, resVars, xyVars, gdVars, decVars>>

decOthers == <<itemVars, resVars, xyVars, gdVars, stVars>>

splitVars == <<splits, length, SNs>>

planVars == <<start, samples_per_label, stride, procs, proc_start, plan_pc>>

genVars == <<dps, batch_size, threading, gen_pc, i, XY, batch_start, batch,
             prev_batch, pass_batches, datafetch, orphans, gen_err>>

preVars == <<label_dir_pairs, pp_start, pp_samples_per_label, pp_config, pre_pc,
             label_idx, file_idx, samples_read, location, reads, pre_err,
             listed, opened, open_stores, X_train, X_train_indices, y_train,
             y_train_start, indices>>

vars == <<splits, length, SNs,
          start, samples_per_label, stride, procs, proc_start, plan_pc,
          dps, batch_size, threading, gen_pc, i, XY, batch_start, batch,
          prev_batch, pass_batches, datafetch, orphans, gen_err,
          label_dir_pairs, pp_start, pp_samples_per_label, pp_config, pre_pc,
          label_idx, file_idx, samples_read, location, reads, pre_err,
          listed, opened, open_stores, X_train, X_train_indices, y_train,
          y_train_start, indices,
          extVars>>

(***************************************************************************)
(* Helpers.                                                                *)
(***************************************************************************)
SeqsUpTo(S, n) == UNION {[1..k -> S] : k \in 0..n}

Min(a, b) == IF a <= b THEN a ELSE b

Abs(a) == IF a >= 0 THEN a ELSE -a

RECURSIVE SumSeq(_)
SumSeq(s) == IF s = <<>> THEN 0 ELSE s[1] + SumSeq(Tail(s))

Reverse(q) == [j \in 1..Len(q) |-> q[Len(q) + 1 - j]]

Perms(n) == {p \in [1..n -> 1..n] : \A a, b \in 1..n : a # b => p[a] # p[b]}

\* x[p]: the rows of x taken in the order p.
Take(x, p) == [j \in 1..Len(p) |-> x[p[j]]]

(***************************************************************************)
(* Budget splitter.                                                        *)
(***************************************************************************)
\* int(x) of the number q/Den: Python truncates towards zero.
IntOf(q) == IF q >= 0 THEN q \div Den ELSE -((-q) \div Den)

\* int(s*length) of the product of the numbers q/Den and r/Den.
IntOfProduct(q, r) ==
    IF q * r >= 0 THEN (q * r) \div (Den * Den) ELSE -((-(q * r)) \div (Den * Den))

\* np.isclose(a, b) with numpy's defaults, |a - b| <= 1e-8 + 1e-5 * |b|, for
\* the numbers a/Den and b/Den, both sides multiplied by 1e5 * Den (the left
\* side is then a whole number, so the 1e-3 * Den on the right is floored).
IsCloseLoose(a, b) == a <= b

IsClose(a, b) == Abs(a - b) * 100000 <= Abs(b) + (Den \div 1000)

IsStatic(x) == IntOf(x) > 0

NotStatic(x) == ~IsStatic(x)

\* The windows: each count with the running sum of the counts before it.
RECURSIVE StartsFrom(_, _)
StartsFrom(nums, st) ==
    IF nums = <<>> THEN <<>>
    ELSE <<[start |-> st, num |-> nums[1]]>>
             \o StartsFrom(Tail(nums), st + nums[1])

Raised(what) == [kind |-> "ValueError", err |-> what, out |-> <<>>]

start_num_fromSplits(spl, len) ==
    IF \E k \in DOMAIN spl : spl[k] < 0 THEN Raised("negative")
    ELSE
    LET are_static_vals == [k \in DOMAIN spl |-> IsStatic(spl[k])]
        anyStatic  == \E k \in DOMAIN spl : are_static_vals[k]
        ratios     == IF anyStatic THEN SelectSeq(spl, NotStatic) ELSE spl
        static_vals == SelectSeq(spl, IsStatic)
        s          == SumSeq(static_vals)
        \* length -= s, as a numerator over Den
        rest       == IF anyStatic THEN len * Den - s ELSE len * Den
        nums       == [k \in DOMAIN spl |->
                          IF are_static_vals[k] THEN IntOf(spl[k])
                          ELSE IntOfProduct(spl[k], rest)]
    IN  IF anyStatic /\ s > len * Den THEN Raised("static_sum")
        ELSE IF Len(ratios) > 0 /\ ~IsClose(SumSeq(ratios), Den)
             THEN Raised("ratio_sum")
        ELSE [kind |-> "ok", err |-> "none", out |-> StartsFrom(nums, 0)]

Pending == [kind |-> "pending", err |-> "none", out |-> <<>>]

SplitNums == (-1)..MaxNum

SplitIdle == splits = <<>> /\ length = 0 /\ SNs = Pending

PlanIdle ==
    /\ start = 0 /\ samples_per_label = 0 /\ stride = 1
    /\ procs = <<>> /\ proc_start = 0 /\ plan_pc = "idle"

\* X, Y = None, None: what a dataFetchThread holds until run() has assigned.
NoneXY == [src |-> -1, n |-> 0]

NoThread == [proc |-> -1, state |-> "unset", XY |-> NoneXY]

NoBatch == [task |-> -1, X |-> <<0, 0>>, Y |-> <<0, 0>>]

GenIdle ==
    /\ dps = <<>> /\ batch_size = 1 /\ threading = FALSE
    /\ gen_pc = "idle" /\ i = 0 /\ XY = NoneXY /\ batch_start = 0
    /\ batch = NoBatch /\ prev_batch = NoBatch /\ pass_batches = <<>>
    /\ datafetch = NoThread /\ orphans = 0 /\ gen_err = "none"

PreIdle ==
    /\ label_dir_pairs = <<>> /\ pp_start = 0 /\ pp_samples_per_label = 0
    /\ pp_config = "ok" /\ pre_pc = "idle" /\ label_idx = 0 /\ file_idx = 0
    /\ samples_read = 0 /\ location = 0 /\ reads = <<>> /\ pre_err = "none"
    /\ listed = 0 /\ opened = 0 /\ open_stores = {}
    /\ X_train = <<>> /\ X_train_indices = <<>> /\ y_train = <<>>
    /\ y_train_start = 0 /\ indices = <<>>

\* ObjectProfile(name) with max_size 0: the optional fields at their
\* defaults.  None is the empty list for sort_columns and punctuation (a
\* punctuation p is <<p>>).  sort_ascending is one flag, or a list of flags.
NoProfile ==
    [max_size |-> 0, query |-> "None", addColumns |-> "None", shuffle |-> FALSE,
     sort_columns |-> <<>>, sort_ascending |-> [isList |-> FALSE, flags |-> <<TRUE>>],
     punctuation |-> <<>>]

ItemIdle ==
    /\ it_profile = NoProfile /\ it_group = <<>> /\ it_x = <<>>
    /\ it_locs = <<>> /\ it_pc = "idle"

ResIdle ==
    /\ object_profiles = <<>> /\ res_pairs = <<>> /\ padding_multiplier = 0
    /\ unresolved = {} /\ maxes = <<>> /\ res_dir = 0 /\ res_file = 0
    /\ res_pc = "idle"

XYIdle ==
    /\ xy_X = <<>> /\ xy_Y = <<>> /\ xy_format = "none" /\ xy_files = {}
    /\ xy_outX = <<>> /\ xy_outY = <<>> /\ xy_pc = "idle"

GdIdle ==
    /\ gd_megabytes = 0 /\ gd_max_sizes = <<>> /\ gd_observ = 0
    /\ gd_splits = <<>> /\ gd_length = 0 /\ gd_batch_size = 1
    /\ gd_stride = 0 /\ gd_SNs = <<>> /\ gd_k = 0 /\ gd_all_dps = <<>>
    /\ gd_max_q = 0 /\ gd_pc = "idle"

StIdle ==
    /\ st_op = "none" /\ st_dirs = <<>> /\ st_profiles = FALSE
    /\ label_totals = <<>> /\ st_d = 0 /\ st_f = 0 /\ st_open = {}
    /\ st_result = <<>> /\ st_pc = "idle"

\* None, a number or a dictionary of one key: v is the number, or whether
\* the key of the dictionary is one of observ_types (1) or not (0).
PyNone == [t |-> "none", v |-> 0]

\* No ObjectProfile: every field at a value that no field can take.
NoObject ==
    [max_size |-> -3, pre_sort_columns |-> <<>>, pre_sort_ascending |-> FALSE,
     sort_columns |-> <<>>, sort_ascending |-> FALSE, query |-> <<>>,
     shuffle |-> FALSE, addColumns |-> [t |-> "unset", v |-> 0],
     punctuation |-> [t |-> "unset", v |-> 0]]

DecIdle ==
    /\ dec_given = NoObject /\ dec_isdict = FALSE /\ dec_profile = NoObject
    /\ dec_err = "" /\ dec_pc = "idle"

ExtIdle == ItemIdle /\ ResIdle /\ XYIdle /\ GdIdle /\ StIdle /\ DecIdle

InitSplit ==
    /\ splits \in SeqsUpTo(SplitNums, MaxSplits)
    /\ length \in 0..MaxLength
    /\ SNs = Pending
    /\ PlanIdle
    /\ GenIdle
    /\ PreIdle
    /\ ExtIdle

\* getGensDefaultFormat line 452: SNs = start_num_fromSplits(splits, length)
CallStartNum ==
    /\ SNs.kind = "pending"
    /\ SNs' = start_num_fromSplits(splits, length)
    /\ UNCHANGED <<splits, length>>
    /\ UNCHANGED planVars
    /\ UNCHANGED <<genVars, preVars, extVars>>

NextSplit == CallStartNum

SpecSplit == InitSplit /\ [][NextSplit]_vars

(***************************************************************************)
(* Chunking planner: procsFrom_label_dir_pairs.                            *)
(***************************************************************************)
\* The inputs: a grid of small windows and strides (stride 0 makes range()
\* raise), and the window of 230 samples with stride 100.
PlanInputs ==
    ((0..MaxStart) \X (0..MaxSamples) \X (0..MaxStride)) \cup {<<0, 230, 100>>}

InitPlan ==
    /\ \E in \in PlanInputs :
          /\ start = in[1]
          /\ samples_per_label = in[2]
          /\ stride = in[3]
    /\ procs = <<>>
    /\ proc_start = 0
    /\ plan_pc = "call"
    /\ SplitIdle
    /\ GenIdle
    /\ PreIdle
    /\ ExtIdle

end == start + samples_per_label

ProcNumNoClamp(str, e, ps) == str

\* line 595: proc_num = min(stride, end-proc_start)
ProcNum(str, e, ps) == Min(str, e - ps)

\* lines 591-594: procs = [], end = start+samples_per_label, and the range
\* object is made: range() raises ValueError for a step of zero.
PlanBegin ==
    /\ plan_pc = "call"
    /\ procs' = <<>>
    /\ proc_start' = start
    /\ plan_pc' = IF stride = 0 THEN "raised" ELSE "loop"
    /\ UNCHANGED <<start, samples_per_label, stride>>
    /\ UNCHANGED splitVars
    /\ UNCHANGED <<genVars, preVars, extVars>>

\* lines 594-607: one iteration of the loop creates one DataProcedure.
PlanStep ==
    /\ plan_pc = "loop"
    /\ proc_start < end
    /\ procs' = Append(procs, [proc_start |-> proc_start,
                               proc_num |-> ProcNum(stride, end, proc_start)])
    /\ proc_start' = proc_start + stride
    /\ UNCHANGED <<start, samples_per_label, stride, plan_pc>>
    /\ UNCHANGED splitVars
    /\ UNCHANGED <<genVars, preVars, extVars>>

\* line 614: the range is exhausted, return procs.
PlanReturn ==
    /\ plan_pc = "loop"
    /\ proc_start >= end
    /\ plan_pc' = "returned"
    /\ UNCHANGED <<start, samples_per_label, stride, procs, proc_start>>
    /\ UNCHANGED splitVars
    /\ UNCHANGED <<genVars, preVars, extVars>>

NextPlan == PlanBegin \/ PlanStep \/ PlanReturn

SpecPlan == InitPlan /\ [][NextPlan]_vars

(***************************************************************************)
(* Claims about the chunking planner.                                      *)
(***************************************************************************)
ProcNumsOf(ps) == [k \in DOMAIN ps |-> ps[k].proc_num]

\* C4: for start >= 0, samples_per_label >= 0 and stride >= 1 the windows of
\* the created tasks are, in list order, contiguous from start, each holds
\* between 1 and stride samples, only the last may hold fewer than stride,
\* and the counts sum to samples_per_label; 230 samples with stride 100
\* give (0,100), (100,100), (200,30).
C4_ChunksCoverWindow ==
    (plan_pc = "returned") =>
        /\ \A k \in DOMAIN procs :
              /\ procs[k].proc_start =
                    (IF k = 1 THEN start
                     ELSE procs[k-1].proc_start + procs[k-1].proc_num)
              /\ 1 <= procs[k].proc_num
              /\ procs[k].proc_num <= stride
              /\ k < Len(procs) => procs[k].proc_num = stride
        /\ SumSeq(ProcNumsOf(procs)) = samples_per_label
        /\ (start = 0 /\ samples_per_label = 230 /\ stride = 100) =>
              procs = << [proc_start |-> 0, proc_num |-> 100],
                         [proc_start |-> 100, proc_num |-> 100],
                         [proc_start |-> 200, proc_num |-> 30] >>

\* C4's case: a window that does not start at 0, cut into several chunks
\* of which the last is smaller than the stride.
C4_Witness ==
    /\ plan_pc = "returned"
    /\ start > 0
    /\ Len(procs) >= 2
    /\ procs[Len(procs)].proc_num < stride

(***************************************************************************)
(* The sample-window walk of preprocessFromPandas_label_dir_pairs.         *)
(***************************************************************************)
\* A directory: no file, one file or two files, in sorted order, each with
\* the number of entries of its NumValues frame.
Dirs == SeqsUpTo(0..MaxEntries, 2)

\* The label lists: one label, two labels, the same label twice.
LabelLists == {<<"a">>, <<"a", "b">>, <<"a", "a">>}

\* What may be wrong with observ_types and object_profiles: "Entry" among
\* the observables, a profile with max_size -1 or None, an addColumns key
\* that is no observable.
Configs == {"ok", "entry_in_observ_types", "unresolved_max_size", "addColumns_key"}

InitPre ==
    /\ \E ls \in LabelLists : \E ds \in [DOMAIN ls -> Dirs] :
          label_dir_pairs = [k \in DOMAIN ls |-> [label |-> ls[k], files |-> ds[k]]]
    /\ pp_start \in 0..MaxWinStart
    /\ pp_samples_per_label \in 0..MaxWinSamples
    /\ pp_config \in Configs
    /\ pre_pc = "call"
    /\ label_idx = 0
    /\ file_idx = 0
    /\ samples_read = 0
    /\ location = 0
    /\ reads = <<>>
    /\ pre_err = "none"
    /\ listed = 0
    /\ opened = 0
    /\ open_stores = {}
    /\ X_train = <<>>
    /\ X_train_indices = <<>>
    /\ y_train = <<>>
    /\ y_train_start = 0
    /\ indices = <<>>
    /\ SplitIdle
    /\ PlanIdle
    /\ GenIdle
    /\ ExtIdle

PreRaise(e) ==
    /\ pre_pc' = "raised"
    /\ pre_err' = e

NoDuplicates == {}

\* lines 205-206: the labels that occur more than once.
duplicates ==
    {label_dir_pairs[k].label : k \in
        {k \in DOMAIN label_dir_pairs :
            \E j \in DOMAIN label_dir_pairs :
                j # k /\ label_dir_pairs[j].label = label_dir_pairs[k].label}}

\* The files of the directory of the label the loop stands at.
files == label_dir_pairs[label_idx + 1].files

\* line 281: file_total_entries of the file the loop stands at.
file_total_entries == files[file_idx + 1]

UnclampedStart == pp_start - location

\* lines 302-303: file_start_read = start-location, at least 0.
file_start_read == IF pp_start - location < 0 THEN 0 ELSE pp_start - location

\* line 305
samples_to_read ==
    Min(pp_samples_per_label - samples_read, file_total_entries - file_start_read)

\* line 245: len(object_profiles); the model has two profiles.
num_profiles == 2

\* line 211
num_labels == Len(label_dir_pairs)

\* None in X_train, and None in y_train.
NoSample == [label |-> -1, file |-> -1, entry |-> -1]

NoVec == <<>>

\* lines 240-243: label_vecs of the label at position l (counted from 0)
label_vecs(l) == [k \in 1..num_labels |-> IF k = l + 1 THEN 1 ELSE 0]

\* The tensor made of entry e of the file the loop stands at.
Sample(e) == [label |-> label_idx, file |-> file_idx, entry |-> e]

\* lines 340-386 for one profile: arr[arr_start + entry - file_start_read]
\* is set for every entry with a group, the others of the range
\* arr_start .. arr_start+samples_to_read-1 are filled with zeros: each index
\* of the range then holds the tensor of one entry read.
FillArr(arr, arr_start) ==
    [k \in 1..Len(arr) |->
        IF arr_start < k /\ k <= arr_start + samples_to_read
        THEN Sample(file_start_read + (k - 1 - arr_start))
        ELSE arr[k]]

ShuffleKept(arr, perm) == arr

\* lines 419, 421: arr[indices]
Shuffle(arr, perm) == Take(arr, perm)

ShortReadLax(sr, spl) == sr > spl

\* line 403: if(samples_read != samples_per_label)
ShortRead(sr, spl) == sr # spl

\* lines 205-253: the checks of the arguments, before any directory is read.
PreValidate ==
    /\ pre_pc = "call"
    /\ IF duplicates # {} THEN PreRaise("ValueError:duplicate_labels")
       ELSE IF pp_config = "entry_in_observ_types" THEN PreRaise("ValueError:Entry")
       ELSE IF pp_config = "unresolved_max_size" THEN PreRaise("ValueError:max_size")
       ELSE IF pp_config = "addColumns_key" THEN PreRaise("ValueError:addColumns")
       ELSE pre_pc' = "label" /\ pre_err' = pre_err
    /\ label_idx' = 0
    /\ IF pre_pc' = "label"
       THEN /\ X_train' = [p \in 1..num_profiles |->
                              [k \in 1..(pp_samples_per_label * num_labels) |-> NoSample]]
            /\ X_train_indices' = [p \in 1..num_profiles |-> 0]
            /\ y_train' = [k \in 1..(pp_samples_per_label * num_labels) |-> NoVec]
       ELSE UNCHANGED <<X_train, X_train_indices, y_train>>
    /\ UNCHANGED <<label_dir_pairs, pp_start, pp_samples_per_label, pp_config,
                   file_idx, samples_read, location, reads>>
    /\ UNCHANGED <<listed, opened, open_stores, y_train_start, indices>>
    /\ UNCHANGED <<splitVars, planVars, genVars, extVars>>

\* lines 256-261: the next label; getFiles_StoreType raises IOError for a
\* directory without files.
PreLabelBegin ==
    /\ pre_pc = "label"
    /\ label_idx < Len(label_dir_pairs)
    /\ IF Len(files) < 1
       THEN PreRaise("IOError:empty_directory")
       ELSE pre_pc' = "file" /\ pre_err' = pre_err
    /\ samples_read' = 0
    /\ location' = 0
    /\ file_idx' = 0
    /\ listed' = listed + 1
    /\ UNCHANGED <<label_dir_pairs, pp_start, pp_samples_per_label, pp_config,
                   label_idx, reads>>
    /\ UNCHANGED <<opened, open_stores, X_train, X_train_indices, y_train,
                   y_train_start, indices>>
    /\ UNCHANGED <<splitVars, planVars, genVars, extVars>>

\* lines 263-402: one file of the loop: it is skipped when it lies wholly
\* before start, otherwise its entries from file_start_read on are read, as
\* many as are still wanted, and the loop ends when the quota is met.
PreFile ==
    /\ pre_pc = "file"
    /\ file_idx < Len(files)
    /\ IF file_total_entries <= 0
       THEN /\ PreRaise("AssertionError:zero_values")
            /\ opened' = opened + 1
            /\ UNCHANGED <<file_idx, samples_read, location, reads>>
            /\ UNCHANGED <<open_stores, X_train, X_train_indices>>
       ELSE IF location + file_total_entries <= pp_start
       THEN /\ location' = location + file_total_entries
            /\ file_idx' = file_idx + 1
            /\ opened' = opened + 1
            /\ UNCHANGED <<pre_pc, pre_err, samples_read, reads>>
            /\ UNCHANGED <<open_stores, X_train, X_train_indices>>
       ELSE IF samples_to_read < 0
       THEN /\ PreRaise("AssertionError:samples_to_read")
            /\ opened' = opened + 2
            /\ open_stores' = open_stores \cup {<<label_idx, file_idx>>}
            /\ UNCHANGED <<file_idx, samples_read, location, reads>>
            /\ UNCHANGED <<X_train, X_train_indices>>
       ELSE /\ opened' = opened + 2
            /\ open_stores' = open_stores
            /\ X_train' = [p \in 1..num_profiles |->
                              FillArr(X_train[p], X_train_indices[p])]
            /\ X_train_indices' = [p \in 1..num_profiles |->
                                      X_train_indices[p] + samples_to_read]
            /\ reads' = Append(reads, [label |-> label_idx,
                                       file |-> file_idx,
                                       first |-> file_start_read,
                                       num |-> samples_to_read])
            /\ location' = location + file_total_entries
            /\ samples_read' = samples_read + samples_to_read
            /\ IF samples_read + samples_to_read >= pp_samples_per_label
               THEN IF samples_read + samples_to_read = pp_samples_per_label
                    THEN pre_pc' = "label_end" /\ pre_err' = pre_err
                    ELSE PreRaise("AssertionError:samples_read")
               ELSE UNCHANGED <<pre_pc, pre_err>>
            /\ file_idx' = file_idx + 1
    /\ UNCHANGED <<label_dir_pairs, pp_start, pp_samples_per_label, pp_config,
                   label_idx>>
    /\ UNCHANGED <<listed, y_train, y_train_start, indices>>
    /\ UNCHANGED <<splitVars, planVars, genVars, extVars>>

\* line 263: the files of the directory are exhausted.
PreFilesEnd ==
    /\ pre_pc = "file"
    /\ file_idx >= Len(files)
    /\ pre_pc' = "label_end"
    /\ UNCHANGED <<label_dir_pairs, pp_start, pp_samples_per_label, pp_config,
                   label_idx, file_idx, samples_read, location, reads, pre_err>>
    /\ UNCHANGED <<listed, opened, open_stores, X_train, X_train_indices, y_train,
                   y_train_start, indices>>
    /\ UNCHANGED <<splitVars, planVars, genVars, extVars>>

\* lines 403-410: too few samples read raises IOError; otherwise the
\* label's rows of y_train are set and the next label follows.
PreLabelEnd ==
    /\ pre_pc = "label_end"
    /\ IF ShortRead(samples_read, pp_samples_per_label)
       THEN /\ PreRaise("IOError:not_enough_data")
            /\ UNCHANGED <<label_idx, y_train, y_train_start>>
       ELSE /\ label_idx' = label_idx + 1
            /\ pre_pc' = "label"
            /\ pre_err' = pre_err
            /\ y_train' = [k \in 1..Len(y_train) |->
                              IF /\ y_train_start < k
                                 /\ k <= y_train_start + pp_samples_per_label
                              THEN label_vecs(label_idx)
                              ELSE y_train[k]]
            /\ y_train_start' = y_train_start + pp_samples_per_label
    /\ UNCHANGED <<label_dir_pairs, pp_start, pp_samples_per_label, pp_config,
                   file_idx, samples_read, location, reads>>
    /\ UNCHANGED <<listed, opened, open_stores, X_train, X_train_indices, indices>>
    /\ UNCHANGED <<splitVars, planVars, genVars, extVars>>

\* lines 412-422: every label is done: shuffle and return X_train, y_train.
PreReturn ==
    /\ pre_pc = "label"
    /\ label_idx >= Len(label_dir_pairs)
    /\ pre_pc' = "returned"
    /\ \E perm \in Perms(Len(y_train)) :
          /\ indices' = perm
          /\ X_train' = [p \in 1..num_profiles |-> Shuffle(X_train[p], perm)]
          /\ y_train' = Shuffle(y_train, perm)
    /\ UNCHANGED <<label_dir_pairs, pp_start, pp_samples_per_label, pp_config,
                   label_idx, file_idx, samples_read, location, reads, pre_err>>
    /\ UNCHANGED <<listed, opened, open_stores, X_train_indices, y_train_start>>
    /\ UNCHANGED <<splitVars, planVars, genVars, extVars>>

NextPre ==
    \/ PreValidate
    \/ PreLabelBegin
    \/ PreFile
    \/ PreFilesEnd
    \/ PreLabelEnd
    \/ PreReturn

SpecPre == InitPre /\ [][NextPre]_vars

(***************************************************************************)
(* Claims about the sample-window walk.                                    *)
(***************************************************************************)
\* The entries of the directory of label l (counted from 0) at or after
\* offset start.
EntriesFrom(l) ==
    LET total == SumSeq(label_dir_pairs[l + 1].files)
    IN  IF total > pp_start THEN total - pp_start ELSE 0

SomeLabelShort ==
    \E l \in 0..(Len(label_dir_pairs) - 1) : EntriesFrom(l) < pp_samples_per_label

\* The samples the call has read for label l.
RECURSIVE ReadFor(_, _)
ReadFor(rs, l) ==
    IF rs = <<>> THEN 0
    ELSE (IF rs[1].label = l THEN rs[1].num ELSE 0) + ReadFor(Tail(rs), l)

\* Arguments the checks accept, and directories that hold files with
\* entries.
SoundInput ==
    /\ duplicates = {}
    /\ pp_config = "ok"
    /\ \A k \in DOMAIN label_dir_pairs :
          /\ Len(label_dir_pairs[k].files) >= 1
          /\ \A f \in DOMAIN label_dir_pairs[k].files : label_dir_pairs[k].files[f] > 0

\* C10: when some label's directory holds fewer than samples_per_label
\* entries at or after start, the call raises and returns nothing (the
\* IOError for too little data, when the arguments and the directories are
\* sound), and whenever the call returns, every label has exactly
\* samples_per_label samples.
C10_ShortReadRaises ==
    /\ (pre_pc \in {"returned", "raised"} /\ SomeLabelShort) => pre_pc = "raised"
    /\ (pre_pc \in {"returned", "raised"} /\ SomeLabelShort /\ SoundInput)
          => pre_err = "IOError:not_enough_data"
    /\ pre_pc = "returned" =>
          \A l \in 0..(Len(label_dir_pairs) - 1) :
              ReadFor(reads, l) = pp_samples_per_label

\* C10's case: the first label has enough entries from start on, the second
\* has some but too few, and the call has raised.
C10_Witness ==
    /\ pre_pc = "raised"
    /\ pre_err = "IOError:not_enough_data"
    /\ SoundInput
    /\ pp_start > 0
    /\ label_idx = 1
    /\ EntriesFrom(0) >= pp_samples_per_label
    /\ EntriesFrom(1) > 0
    /\ EntriesFrom(1) < pp_samples_per_label

(***************************************************************************)
(* Claims about the budget splitter.                                       *)
(***************************************************************************)
IsIntSplit(q) == q >= 0 /\ q % Den = 0

IsFracSplit(q) == 0 < q /\ q < Den

IntSum == SumSeq(SelectSeq(splits, IsIntSplit))

FracSum == SumSeq(SelectSeq(splits, IsFracSplit))

\* The valid inputs of C1 and C2: integer counts or fractions in (0,1), the
\* integers summing to at most length and the fractions to 1.0.
ValidSplits ==
    /\ \A k \in DOMAIN splits : IsIntSplit(splits[k]) \/ IsFracSplit(splits[k])
    /\ IntSum <= length * Den
    /\ FracSum = Den

NumsOf(out) == [k \in DOMAIN out |-> out[k].num]

RunningStarts(out) ==
    \A k \in DOMAIN out :
        out[k].start = (IF k = 1 THEN 0 ELSE out[k-1].start + out[k-1].num)

\* C1 (as claimed): for every valid input the result has one (start, count)
\* pair per split, the starts are the running sums of the counts from 0, and
\* the counts sum to length: the windows cover [0, length) with no sample
\* dropped.
C1_CoversLength ==
    (SNs.kind # "pending" /\ ValidSplits) =>
        /\ SNs.kind = "ok"
        /\ Len(SNs.out) = Len(splits)
        /\ RunningStarts(SNs.out)
        /\ SumSeq(NumsOf(SNs.out)) = length

\* C2 (as claimed): every integer split s receives exactly s samples and
\* every fraction split r receives exactly r * (length - sum of the integer
\* splits), with the starts the running sums in declaration order.
C2_ExactShares ==
    (SNs.kind # "pending" /\ ValidSplits) =>
        /\ SNs.kind = "ok"
        /\ Len(SNs.out) = Len(splits)
        /\ RunningStarts(SNs.out)
        /\ \A k \in DOMAIN SNs.out :
              /\ IsIntSplit(splits[k]) => SNs.out[k].num * Den = splits[k]
              /\ IsFracSplit(splits[k]) =>
                    SNs.out[k].num * Den * Den = splits[k] * (length * Den - IntSum)

\* C3: whenever the call has at least one fraction split and the fraction
\* splits do not sum to 1.0, the call raises and returns no window list,
\* whatever integer splits stand beside the fractions.
C3_RatioSumRejected ==
    (/\ SNs.kind # "pending"
     /\ \E k \in DOMAIN splits : IsFracSplit(splits[k])
     /\ FracSum # Den)
        => (SNs.kind = "ValueError" /\ SNs.out = <<>>)

\* C3's case: integer splits within the budget beside fractions that do not
\* sum to 1.0, rejected by the check of the ratio sum.
C3_Witness ==
    /\ SNs.kind = "ValueError" /\ SNs.err = "ratio_sum"
    /\ \E k \in DOMAIN splits : IsFracSplit(splits[k])
    /\ \E k \in DOMAIN splits : IsIntSplit(splits[k]) /\ splits[k] > 0
    /\ \A k \in DOMAIN splits : IsIntSplit(splits[k]) \/ IsFracSplit(splits[k])
    /\ FracSum # Den

(***************************************************************************)
(* Batch generator: genFromDPs and its prefetch worker dataFetchThread.    *)
(***************************************************************************)
\* The elements a task list is drawn from: DataProcedures whose getData()
\* returns a chunk of n samples or raises, and one element that is no
\* DataProcedure.
Tasks ==
    [isDP : {TRUE}, fails : BOOLEAN, n : 0..MaxChunk]
        \cup {[isDP |-> FALSE, fails |-> FALSE, n |-> 0]}

OkTask(n) == [isDP |-> TRUE, fails |-> FALSE, n |-> n]

\* The inputs: small task lists and batch sizes, and the two chunks of ten
\* samples with batch_size 4.
GenInputs ==
    (SeqsUpTo(Tasks, MaxTasks) \X (1..MaxBatch)) \cup {<< <<OkTask(10), OkTask(10)>>, 4 >>}

InitGen ==
    /\ \E in \in GenInputs : dps = in[1] /\ batch_size = in[2]
    /\ threading \in BOOLEAN
    /\ gen_pc = "created"
    /\ i = 0
    /\ XY = NoneXY
    /\ batch_start = 0
    /\ batch = NoBatch
    /\ prev_batch = NoBatch
    /\ pass_batches = <<>>
    /\ datafetch = NoThread
    /\ orphans = 0
    /\ gen_err = "none"
    /\ SplitIdle
    /\ PlanIdle
    /\ PreIdle
    /\ ExtIdle

\* dps[k] with the code's index k, counted from 0.
DP(k) == dps[k + 1]

\* proc.getData() of a task that returns: the chunk (X, Y), n samples of dps[k].
GetData(k) == [src |-> k, n |-> DP(k).n]

\* A new dataFetchThread(dps[k]) after start(): alive, X and Y still None.
Started(k) == [proc |-> k, state |-> "running", XY |-> NoneXY]

IsAlive(t) == t.state = "running"

\* The threads left running without a name when datafetch is assigned anew.
Dropped(t) == IF IsAlive(t) THEN 1 ELSE 0

PassStartThreadLast == Started(Len(dps) - 1)

\* lines 645-646: datafetch = dataFetchThread(dps[0]); datafetch.start()
PassStartThread == Started(0)

NeverAlive(t) == FALSE

\* line 650: while(datafetch.isAlive()): pass
StillWaiting(t) == IsAlive(t)

\* lines 655-658: the task the next dataFetchThread is made for.
NextProc(k) == IF k # Len(dps) - 1 THEN k + 1 ELSE 0

GenRaise(e) ==
    /\ gen_pc' = "raised"
    /\ gen_err' = e

\* lines 637-639: the first next() runs the body up to while True; a list
\* element that is no DataProcedure raises TypeError.
GenFirstPull ==
    /\ gen_pc = "created"
    /\ IF \E k \in DOMAIN dps : ~dps[k].isDP
       THEN GenRaise("TypeError")
       ELSE gen_pc' = "pass" /\ gen_err' = gen_err
    /\ UNCHANGED <<dps, batch_size, threading, i, XY, batch_start, batch, prev_batch,
                   pass_batches, datafetch, orphans>>
    /\ UNCHANGED <<splitVars, planVars, preVars, extVars>>

\* lines 642-647, threading: datafetch = dataFetchThread(dps[0]) and start();
\* the thread datafetch named before is dropped, running or not.
GenPassThreaded ==
    /\ gen_pc = "pass"
    /\ threading
    /\ IF Len(dps) = 0
       THEN /\ GenRaise("IndexError")
            /\ UNCHANGED <<datafetch, orphans, i>>
       ELSE /\ orphans + Dropped(datafetch) <= MaxOrphans
            /\ orphans' = orphans + Dropped(datafetch)
            /\ datafetch' = PassStartThread
            /\ i' = 0
            /\ gen_pc' = "for"
            /\ gen_err' = gen_err
    /\ pass_batches' = <<>>
    /\ UNCHANGED <<dps, batch_size, threading, XY, batch_start, batch, prev_batch>>
    /\ UNCHANGED <<splitVars, planVars, preVars, extVars>>

\* lines 642-647, no threading: the for loop starts.
GenPassPlain ==
    /\ gen_pc = "pass"
    /\ ~threading
    /\ i' = 0
    /\ gen_pc' = "for"
    /\ pass_batches' = <<>>
    /\ UNCHANGED <<dps, batch_size, threading, XY, batch_start, batch, prev_batch,
                   datafetch, orphans, gen_err>>
    /\ UNCHANGED <<splitVars, planVars, preVars, extVars>>

\* line 647: range(0, len(dps)) is exhausted, back to while True.
GenPassEnd ==
    /\ gen_pc = "for"
    /\ i >= Len(dps)
    /\ gen_pc' = "pass"
    /\ UNCHANGED <<dps, batch_size, threading, i, XY, batch_start, batch, prev_batch,
                   pass_batches, datafetch, orphans, gen_err>>
    /\ UNCHANGED <<splitVars, planVars, preVars, extVars>>

\* lines 648-659: wait until datafetch is not alive, take its X and Y, then
\* make and start the dataFetchThread of the next task.
GenTakePrefetched ==
    /\ gen_pc = "for"
    /\ i < Len(dps)
    /\ threading
    /\ ~StillWaiting(datafetch)
    /\ XY' = datafetch.XY
    /\ orphans + Dropped(datafetch) <= MaxOrphans
    /\ orphans' = orphans + Dropped(datafetch)
    /\ datafetch' = Started(NextProc(i))
    /\ batch_start' = 0
    /\ gen_pc' = "slice"
    /\ UNCHANGED <<dps, batch_size, threading, i, batch, prev_batch, pass_batches,
                   gen_err>>
    /\ UNCHANGED <<splitVars, planVars, preVars, extVars>>

\* lines 660-661: X,Y = dps[i].getData(verbose=verbose); what it raises
\* leaves the generator.
GenGetData ==
    /\ gen_pc = "for"
    /\ i < Len(dps)
    /\ ~threading
    /\ IF DP(i).fails
       THEN GenRaise("TaskFailure") /\ UNCHANGED <<XY, batch_start>>
       ELSE /\ XY' = GetData(i)
            /\ batch_start' = 0
            /\ gen_pc' = "slice"
            /\ gen_err' = gen_err
    /\ UNCHANGED <<dps, batch_size, threading, i, batch, prev_batch, pass_batches,
                   datafetch, orphans>>
    /\ UNCHANGED <<splitVars, planVars, preVars, extVars>>

\* line 668: end = start+min(batch_size, tot-start)
BatchEnd(st, tot) == st + Min(batch_size, tot - st)

\* line 669: x[start:end] of an array of n samples holds the samples from
\* start up to end, both cut to n.
Slice(st, e, n) == <<Min(st, n), Min(e, n)>>

NextStartSkips(st) == st + batch_size + 1

\* line 667: the step of range(0, tot, batch_size)
NextStart(st) == st + batch_size

\* lines 663-669 with X, Y = None, None: Y = [None], and Y[0].shape raises
\* AttributeError.
GenSliceNone ==
    /\ gen_pc = "slice"
    /\ XY = NoneXY
    /\ GenRaise("AttributeError")
    /\ UNCHANGED <<dps, batch_size, threading, i, XY, batch_start, batch, prev_batch,
                   pass_batches, datafetch, orphans>>
    /\ UNCHANGED <<splitVars, planVars, preVars, extVars>>

\* lines 667-669: the next start of range(0, tot, batch_size) yields the
\* slices [start:end] of every x in X and every y in Y.
GenYield ==
    /\ gen_pc = "slice"
    /\ XY # NoneXY
    /\ batch_start < XY.n
    /\ LET e == BatchEnd(batch_start, XY.n)
           b == [task |-> XY.src,
                 X |-> Slice(batch_start, e, XY.n),
                 Y |-> Slice(batch_start, e, XY.n)]
       IN  /\ batch' = b
           /\ prev_batch' = batch
           /\ pass_batches' = Append(pass_batches, b)
    /\ gen_pc' = "yielded"
    /\ UNCHANGED <<dps, batch_size, threading, i, XY, batch_start,
                   datafetch, orphans, gen_err>>
    /\ UNCHANGED <<splitVars, planVars, preVars, extVars>>

\* line 667: range(0, tot, batch_size) is exhausted, on to the next i.
GenChunkEnd ==
    /\ gen_pc = "slice"
    /\ XY # NoneXY
    /\ batch_start >= XY.n
    /\ i' = i + 1
    /\ gen_pc' = "for"
    /\ UNCHANGED <<dps, batch_size, threading, XY, batch_start, batch, prev_batch,
                   pass_batches, datafetch, orphans, gen_err>>
    /\ UNCHANGED <<splitVars, planVars, preVars, extVars>>

\* The consumer's next(): the generator resumes after the yield.
GenPull ==
    /\ gen_pc = "yielded"
    /\ batch_start' = NextStart(batch_start)
    /\ gen_pc' = "slice"
    /\ UNCHANGED <<dps, batch_size, threading, i, XY, batch, prev_batch, pass_batches,
                   datafetch, orphans, gen_err>>
    /\ UNCHANGED <<splitVars, planVars, preVars, extVars>>

\* lines 629-631, dataFetchThread.run of the thread datafetch names:
\* self.X, self.Y = self.proc.getData(); when getData raises, the thread
\* ends with X and Y still None.
WorkerRun ==
    /\ IsAlive(datafetch)
    /\ datafetch' = [datafetch EXCEPT
                        !.state = "finished",
                        !.XY = IF DP(datafetch.proc).fails THEN NoneXY
                               ELSE GetData(datafetch.proc)]
    /\ UNCHANGED <<dps, batch_size, threading, gen_pc, i, XY, batch_start,
                   batch, prev_batch, pass_batches, orphans, gen_err>>
    /\ UNCHANGED <<splitVars, planVars, preVars, extVars>>

\* lines 629-631, run() of a thread that datafetch no longer names.
OrphanRun ==
    /\ orphans > 0
    /\ orphans' = orphans - 1
    /\ UNCHANGED <<dps, batch_size, threading, gen_pc, i, XY, batch_start,
                   batch, prev_batch, pass_batches, datafetch, gen_err>>
    /\ UNCHANGED <<splitVars, planVars, preVars, extVars>>

NextGen ==
    \/ GenFirstPull
    \/ GenPassThreaded
    \/ GenPassPlain
    \/ GenPassEnd
    \/ GenTakePrefetched
    \/ GenGetData
    \/ GenSliceNone
    \/ GenYield
    \/ GenChunkEnd
    \/ GenPull
    \/ WorkerRun
    \/ OrphanRun

SpecGen == InitGen /\ [][NextGen]_vars

(***************************************************************************)
(* Claims about the batch generator.                                       *)
(***************************************************************************)
\* The batches of chunk k: ceil(n/batch_size) consecutive slices of
\* batch_size samples, the last cut to n.
ChunkBatches(k) ==
    LET n == DP(k).n
    IN  [j \in 1..((n + batch_size - 1) \div batch_size) |->
            [task |-> k,
             X |-> <<(j - 1) * batch_size, Min(j * batch_size, n)>>,
             Y |-> <<(j - 1) * batch_size, Min(j * batch_size, n)>>]]

RECURSIVE BatchesFrom(_)
BatchesFrom(k) ==
    IF k >= Len(dps) THEN <<>> ELSE ChunkBatches(k) \o BatchesFrom(k + 1)

\* What one pass over the task list is to yield.
ExpectedPass == BatchesFrom(0)

IsPrefix(a, b) ==
    /\ Len(a) <= Len(b)
    /\ \A j \in 1..Len(a) : a[j] = b[j]

SizesOf(bs) == [j \in DOMAIN bs |-> bs[j].X[2] - bs[j].X[1]]

\* C5: within one pass the chunks are consumed in list order, and a chunk of
\* n samples yields ceil(n/batch_size) batches, the consecutive slices
\* [k*batch_size, min((k+1)*batch_size, n)) taken alike from X and from Y;
\* two chunks of 10 samples with batch_size 4 give the sizes 4,4,2,4,4,2.
C5_BatchesInOrder ==
    /\ IsPrefix(pass_batches, ExpectedPass)
    /\ (gen_pc = "for" /\ i = Len(dps)) => pass_batches = ExpectedPass
    /\ (/\ gen_pc = "for" /\ i = Len(dps)
        /\ dps = <<OkTask(10), OkTask(10)>> /\ batch_size = 4)
            => SizesOf(pass_batches) = <<4, 4, 2, 4, 4, 2>>

\* C5's case: a pass over two chunks has ended, with several batches per
\* chunk and a last batch shorter than batch_size.
C5_Witness ==
    /\ gen_pc = "for" /\ i = Len(dps)
    /\ Len(dps) = 2
    /\ Len(pass_batches) >= 4
    /\ \E j \in DOMAIN pass_batches :
          pass_batches[j].X[2] - pass_batches[j].X[1] < batch_size

HasSamples(k) == DP(k).n > 0

FirstWithSamples ==
    CHOOSE k \in 0..(Len(dps) - 1) :
        HasSamples(k) /\ \A j \in 0..(k - 1) : ~HasSamples(j)

LastWithSamples ==
    CHOOSE k \in 0..(Len(dps) - 1) :
        HasSamples(k) /\ \A j \in (k + 1)..(Len(dps) - 1) : ~HasSamples(j)

FirstBatchOf(k) ==
    [task |-> k, X |-> <<0, Min(batch_size, DP(k).n)>>,
                 Y |-> <<0, Min(batch_size, DP(k).n)>>]

IsLastBatchOf(b, k) == b.task = k /\ b.X[2] = DP(k).n

\* C6 (as claimed): the batch yielded after the last batch of the last task
\* is the first batch of the first task.
C6_NextIsFirstTask ==
    (/\ gen_pc = "yielded"
     /\ prev_batch # NoBatch
     /\ IsLastBatchOf(prev_batch, Len(dps) - 1))
        => batch = FirstBatchOf(0)

\* C6 (amended): the batch yielded after the last batch of a pass (the last
\* batch of the last task that holds samples) is the first batch of the
\* first task that holds samples, with and without threading.
C6_NextIsFirstOfPass ==
    (/\ gen_pc = "yielded"
     /\ prev_batch # NoBatch
     /\ IsLastBatchOf(prev_batch, LastWithSamples))
        => /\ batch = FirstBatchOf(FirstWithSamples)
           /\ pass_batches = <<batch>>

\* C6's case: with threading, a second pass over two chunks has yielded its
\* first batch right after the last batch of the pass before.
C6_Witness ==
    /\ threading
    /\ gen_pc = "yielded"
    /\ Len(dps) = 2
    /\ HasSamples(0) /\ HasSamples(1)
    /\ IsLastBatchOf(prev_batch, 1)
    /\ batch = FirstBatchOf(0)

\* C7 (as claimed): at most one started dataFetchThread is running at any
\* time.
C7_AtMostOneWorker == Dropped(datafetch) + orphans <= 1

\* What the worker of dps[k] holds once it has finished.
CompletedResult(k) == IF DP(k).fails THEN NoneXY ELSE [src |-> k, n |-> DP(k).n]

\* C8: with threading, the X and Y the generator works on at index i are
\* those of the finished worker of dps[i], and every batch yielded at index
\* i is a slice of the result of dps[i].
C8_ReadsCompletedResult ==
    (threading /\ gen_pc \in {"slice", "yielded"}) =>
        /\ XY = CompletedResult(i)
        /\ gen_pc = "yielded" => (batch.task = i /\ XY.src = i)

\* C8's case: the consumer holds a batch of the second chunk while the
\* worker of the next task is still running.
C8_Witness ==
    /\ threading
    /\ gen_pc = "yielded"
    /\ i = 1
    /\ batch.task = 1
    /\ IsAlive(datafetch)

\* C9 (as claimed): with threading, when the task of chunk i fails in the
\* worker, the consumer's pull of that chunk raises that failure, and no
\* batch of the chunk is yielded.
C9_FailurePropagates ==
    (/\ threading
     /\ gen_pc = "raised"
     /\ \A k \in DOMAIN dps : dps[k].isDP
     /\ i < Len(dps)
     /\ DP(i).fails)
        => /\ gen_err = "TaskFailure"
           /\ \A j \in DOMAIN pass_batches : pass_batches[j].task # i

(***************************************************************************)
(* The per-instance pipeline of preprocessFromPandas_label_dir_pairs: the  *)
(* body of the loop over the groups of one profile's frame (lines 350-378) *)
(* with padItem, and the zero fill of the entries without a group (lines   *)
(* 381-383).                                                               *)
(***************************************************************************)
\* line 210: vecsize = len(observ_types); the model has two observables.
vecsize == 2

\* A row of x.values after the projection to observ_types.
Rows == [1..vecsize -> 0..MaxVal]

\* The rows of one entry in the selected slice, in the order the pre-sort
\* (line 352) leaves them; no row at all: the entry has no group.
Groups == SeqsUpTo(Rows, MaxRows)

\* sort_columns as positions in observ_types: None, one column or two.
SortColumns ==
    {c \in SeqsUpTo(1..vecsize, vecsize) :
        \A a, b \in DOMAIN c : a # b => c[a] # c[b]}

\* sort_ascending: True, False, or a list with one flag per sort column.
SortAscendings(cols) ==
    [isList : {FALSE}, flags : [1..1 -> BOOLEAN]]
        \cup (IF cols = <<>> THEN {}
              ELSE [isList : {TRUE}, flags : [1..Len(cols) -> BOOLEAN]])

Profiles ==
    UNION {[max_size : 0..MaxSize,
            query : {"None", "c1 > 0"},
            addColumns : {"None", "c2 = 1"},
            shuffle : BOOLEAN,
            sort_columns : {cols},
            sort_ascending : SortAscendings(cols),
            punctuation : {<<>>, <<MaxVal>>}] : cols \in SortColumns}

InitItem ==
    /\ it_profile \in Profiles
    /\ it_group \in Groups
    /\ it_x = <<>>
    /\ it_locs = <<>>
    /\ it_pc = "group"
    /\ SplitIdle
    /\ PlanIdle
    /\ GenIdle
    /\ PreIdle
    /\ ResIdle
    /\ XYIdle
    /\ GdIdle
    /\ StIdle
    /\ DecIdle

ZeroRow == [c \in 1..vecsize |-> 0]

\* np.zeros((n, vecsize))
Zeros(n) == [j \in 1..n |-> ZeroRow]

\* line 354: x = x.query(profile.query)
KeepsRow(r) == r[1] > 0

Query(x, q) == IF q = "None" THEN x ELSE SelectSeq(x, KeepsRow)

\* lines 356-358: x[key] = value for every key of addColumns
AddColumns(x, ac) ==
    IF ac = "None" THEN x ELSE [j \in 1..Len(x) |-> [x[j] EXCEPT ![2] = 1]]

\* lines 183-186 of padItem: cut to max_size rows, or append zero rows.
PadOrCut(x, max_size) ==
    IF Len(x) > max_size THEN SubSeq(x, 1, max_size)
    ELSE x \o Zeros(max_size - Len(x))

\* padItem: line 187 shuffles the rows when shuffle is set.
padItem(x, max_size, shuffle) ==
    LET out == PadOrCut(x, max_size)
    IN  IF shuffle THEN {Take(out, p) : p \in Perms(Len(out))} ELSE {out}

\* keys.argsort(): an order that sorts the keys; numpy's default sort kind
\* is not stable, so equal keys may come in any order.
ArgSorts(keys) ==
    {p \in Perms(Len(keys)) :
        \A j \in 1..(Len(keys) - 1) : keys[p[j]] <= keys[p[j + 1]]}

\* line 369: profile.sort_ascending == True; a list is never equal to True.
SortsAscending(sa) == ~sa.isList /\ sa.flags[1]

\* lines 351-364: pre-sort, query, addColumns, projection, and sort_locs.
ItemSelect ==
    /\ it_pc = "group"
    /\ it_group # <<>>
    /\ it_x' = AddColumns(Query(it_group, it_profile.query), it_profile.addColumns)
    /\ it_locs' = Reverse(it_profile.sort_columns)
    /\ it_pc' = "selected"
    /\ UNCHANGED <<it_profile, it_group>>
    /\ UNCHANGED <<splitVars, planVars, genVars, preVars>>
    /\ UNCHANGED itemOthers

\* line 365: x = padItem(x.values, max_size, vecsize, shuffle=profile.shuffle)
ItemPad ==
    /\ it_pc = "selected"
    /\ it_x' \in padItem(it_x, it_profile.max_size, it_profile.shuffle)
    /\ it_pc' = "padded"
    /\ UNCHANGED <<it_profile, it_group, it_locs>>
    /\ UNCHANGED <<splitVars, planVars, genVars, preVars>>
    /\ UNCHANGED itemOthers

\* lines 368-372: one iteration of for loc in reversed(sort_locs)
ItemSortStep ==
    /\ it_pc = "padded"
    /\ it_locs # <<>>
    /\ \E p \in ArgSorts([j \in 1..Len(it_x) |-> it_x[j][Head(it_locs)]]) :
          it_x' = IF SortsAscending(it_profile.sort_ascending)
                  THEN Take(it_x, p)
                  ELSE Take(it_x, Reverse(p))
    /\ it_locs' = Tail(it_locs)
    /\ UNCHANGED <<it_profile, it_group, it_pc>>
    /\ UNCHANGED <<splitVars, planVars, genVars, preVars>>
    /\ UNCHANGED itemOthers

\* lines 373-378: the punctuation row is appended and x is stored in arr.
ItemStore ==
    /\ it_pc = "padded"
    /\ it_locs = <<>>
    /\ it_x' = IF it_profile.punctuation # <<>>
               THEN Append(it_x, [c \in 1..vecsize |-> it_profile.punctuation[1]])
               ELSE it_x
    /\ it_pc' = "stored"
    /\ UNCHANGED <<it_profile, it_group, it_locs>>
    /\ UNCHANGED <<splitVars, planVars, genVars, preVars>>
    /\ UNCHANGED itemOthers

\* lines 381-383: an entry of the window without a group is stored as
\* np.zeros((max_size, vecsize)).
ItemFillEmpty ==
    /\ it_pc = "group"
    /\ it_group = <<>>
    /\ it_x' = Zeros(it_profile.max_size)
    /\ it_pc' = "stored"
    /\ UNCHANGED <<it_profile, it_group, it_locs>>
    /\ UNCHANGED <<splitVars, planVars, genVars, preVars>>
    /\ UNCHANGED itemOthers

NextItem ==
    \/ ItemSelect
    \/ ItemPad
    \/ ItemSortStep
    \/ ItemStore
    \/ ItemFillEmpty

SpecItem == InitItem /\ [][NextItem]_vars

(***************************************************************************)
(* Claims about the per-instance pipeline.                                 *)
(***************************************************************************)
\* The rows the claim gives the tensor of a profile.
ClaimedRows(profile) ==
    profile.max_size + (IF profile.punctuation # <<>> THEN 1 ELSE 0)

\* C11 (as claimed): the tensor stored for an entry has max_size rows when
\* the profile has no punctuation and max_size+1 rows when it has, and
\* len(observ_types) columns, whether the entry has more rows than max_size,
\* fewer, or none.
C11_ExactShape ==
    (it_pc = "stored") =>
        /\ Len(it_x) = ClaimedRows(it_profile)
        /\ \A j \in DOMAIN it_x : DOMAIN it_x[j] = 1..vecsize

\* The direction the claim gives the k-th sort column.
FlagOf(sa, k) == IF sa.isList THEN sa.flags[k] ELSE sa.flags[1]

\* Row r1 may stand before row r2: they differ first, in the order of
\* sort_columns from the k-th on, in a column whose direction puts r1 first.
RECURSIVE InOrder(_, _, _, _)
InOrder(profile, r1, r2, k) ==
    IF k > Len(profile.sort_columns) THEN TRUE
    ELSE LET c == profile.sort_columns[k]
         IN  IF r1[c] = r2[c] THEN InOrder(profile, r1, r2, k + 1)
             ELSE IF FlagOf(profile.sort_ascending, k) THEN r1[c] < r2[c]
             ELSE r1[c] > r2[c]

\* C19 (as claimed): with sort_columns declared, the max_size rows of the
\* stored tensor are ordered by the first-declared column, ties broken by
\* the later columns, each column ascending or descending by its own flag
\* of sort_ascending, one flag for all or a list of flags.
C19_PostSorted ==
    (it_pc = "stored" /\ it_group # <<>> /\ it_profile.sort_columns # <<>>) =>
        \A j \in 1..(it_profile.max_size - 1) :
            InOrder(it_profile, it_x[j], it_x[j + 1], 1)

(***************************************************************************)
(* Claims about preprocessFromPandas_label_dir_pairs: the order of checks  *)
(* and I/O, the entries read, and the alignment of X and Y.                *)
(***************************************************************************)
\* What C12 is about: a duplicate label, "Entry" among the observables, or
\* a profile with max_size -1 or None.
HasDuplicateLabel ==
    \E j, k \in DOMAIN label_dir_pairs :
        j # k /\ label_dir_pairs[j].label = label_dir_pairs[k].label

ConfigFault ==
    \/ HasDuplicateLabel
    \/ pp_config \in {"entry_in_observ_types", "unresolved_max_size"}

ConfigErrors ==
    {"ValueError:duplicate_labels", "ValueError:Entry", "ValueError:max_size"}

\* C12: with a duplicate label, with "Entry" in observ_types, or with a
\* profile of unresolved max_size, the call ends in a ValueError, and up to
\* then no source directory has been listed and no table file opened.
C12_ConfigErrorBeforeIO ==
    ConfigFault =>
        /\ listed = 0
        /\ opened = 0
        /\ pre_pc \in {"call", "raised"}
        /\ pre_pc = "raised" => pre_err \in ConfigErrors

\* C12's case: the call has raised for a duplicate label although every
\* directory holds files with entries.
C12_Witness ==
    /\ pre_pc = "raised"
    /\ HasDuplicateLabel
    /\ pre_err = "ValueError:duplicate_labels"
    /\ \A k \in DOMAIN label_dir_pairs :
          /\ Len(label_dir_pairs[k].files) >= 1
          /\ \A f \in DOMAIN label_dir_pairs[k].files : label_dir_pairs[k].files[f] > 0

\* The entries before file f (counted from 0) in the directory of label l.
FileOffset(l, f) == SumSeq(SubSeq(label_dir_pairs[l + 1].files, 1, f))

\* The global positions, in the concatenated list of the directory of label
\* l, of the entries read for l, in the order they were read.
RECURSIVE PositionsRead(_, _)
PositionsRead(rs, l) ==
    IF rs = <<>> THEN <<>>
    ELSE (IF rs[1].label = l
          THEN [j \in 1..rs[1].num |->
                   FileOffset(l, rs[1].file) + rs[1].first + j - 1]
          ELSE <<>>) \o PositionsRead(Tail(rs), l)

\* start, start+1, ..., start+samples_per_label-1
Window == [j \in 1..pp_samples_per_label |-> pp_start + j - 1]

\* C16: for every label the entries read are, in order and each once, the
\* global positions start .. start+samples_per_label-1 of the directory's
\* files taken as one list, also across files; no file that lies wholly
\* before start is read, every read stays inside its file, and the counts
\* read per file sum to samples_per_label.
C16_ExactWindow ==
    /\ \A l \in 0..(Len(label_dir_pairs) - 1) :
          /\ IsPrefix(PositionsRead(reads, l), Window)
          /\ (pre_pc = "returned" \/ l < label_idx) =>
                /\ PositionsRead(reads, l) = Window
                /\ ReadFor(reads, l) = pp_samples_per_label
    /\ \A k \in DOMAIN reads :
          LET size == label_dir_pairs[reads[k].label + 1].files[reads[k].file + 1]
          IN  /\ FileOffset(reads[k].label, reads[k].file) + size > pp_start
              /\ 0 <= reads[k].first
              /\ 0 <= reads[k].num
              /\ reads[k].first + reads[k].num <= size

\* C16's case: a returned call whose window starts inside the first file of
\* a directory and ends in the second.
C16_Witness ==
    /\ pre_pc = "returned"
    /\ pp_start > 0
    /\ \E a, b \in DOMAIN reads :
          /\ reads[a].label = reads[b].label
          /\ reads[a].file = 0 /\ reads[a].first > 0 /\ reads[a].num > 0
          /\ reads[b].file = 1 /\ reads[b].num > 0

\* The (file, entry) at global position g of a list of files fs, the first
\* of which is file f.
RECURSIVE LocateFrom(_, _, _)
LocateFrom(fs, f, g) ==
    IF g < fs[1] THEN [file |-> f, entry |-> g]
    ELSE LocateFrom(Tail(fs), f + 1, g - fs[1])

\* The (label, file, entry) of the k-th sample before the shuffle: the
\* labels in list order, each with its window in order.
ExpectedSample(k) ==
    LET l == (k - 1) \div pp_samples_per_label
        at == LocateFrom(label_dir_pairs[l + 1].files, 0,
                         pp_start + ((k - 1) % pp_samples_per_label))
    IN  [label |-> l, file |-> at.file, entry |-> at.entry]

\* C18: in the returned (X, Y) sample index i is the same (label, entry) in
\* every profile tensor, Y[i] is the one-hot vector of that label, each
\* label owns samples_per_label of the indices, and X and Y are the
\* unshuffled lists taken in the order of the one permutation indices.
C18_Aligned ==
    (pre_pc = "returned") =>
        LET n == pp_samples_per_label * num_labels
        IN  /\ indices \in Perms(n)
            /\ Len(y_train) = n
            /\ \A p \in 1..num_profiles : Len(X_train[p]) = n
            /\ \A k \in 1..n :
                  /\ \A p \in 1..num_profiles :
                        X_train[p][k] = ExpectedSample(indices[k])
                  /\ y_train[k] = label_vecs(X_train[1][k].label)
            /\ \A l \in 0..(num_labels - 1) :
                  Cardinality({k \in 1..n : y_train[k] = label_vecs(l)})
                      = pp_samples_per_label

\* C18's case: a returned call with two labels and two samples per label
\* whose shuffle moved the samples.
C18_Witness ==
    /\ pre_pc = "returned"
    /\ num_labels = 2
    /\ pp_samples_per_label = 2
    /\ indices # <<1, 2, 3, 4>>
    /\ y_train[1] # y_train[2]

(***************************************************************************)
(* Size resolver: resolveProfileMaxes.                                     *)
(***************************************************************************)
\* The files: up to two entries, each with the rows it has in a profile's
\* table (the tables of the model's profiles hold equal counts).
ResFiles == SeqsUpTo(0..MaxCount, 2)

\* The argument label_dir_pairs: no directory, one directory of up to two
\* files, or that and a second directory of up to one file.
ResPairs ==
    {<<>>}
        \cup {<<d>> : d \in SeqsUpTo(ResFiles, 2)}
        \cup {<<d, e>> : d \in SeqsUpTo(ResFiles, 2), e \in SeqsUpTo(ResFiles, 1)}

\* The max_size of a profile: -1, None, or resolved.
MaxSizes == {<<-1>>, <<>>, <<1>>}

InitRes ==
    /\ object_profiles \in SeqsUpTo(MaxSizes, 2)
    /\ res_pairs \in ResPairs
    /\ padding_multiplier \in 0..MaxMult
    /\ unresolved = {}
    /\ maxes = <<>>
    /\ res_dir = 0
    /\ res_file = 0
    /\ res_pc = "call"
    /\ SplitIdle
    /\ PlanIdle
    /\ GenIdle
    /\ PreIdle
    /\ ItemIdle
    /\ XYIdle
    /\ GdIdle
    /\ StIdle
    /\ DecIdle

\* line 82: profile.max_size == -1 or profile.max_size == None
IsUnresolved(ms) == ms = <<-1>> \/ ms = <<>>

NaN == [nan |-> TRUE, v |-> 0]

Num(n) == [nan |-> FALSE, v |-> n]

RECURSIVE MaxOf(_)
MaxOf(q) ==
    IF Len(q) = 1 THEN q[1]
    ELSE LET m == MaxOf(Tail(q)) IN IF q[1] >= m THEN q[1] ELSE m

\* line 106: num_val_frame[profile.name].max(), NaN for a frame without
\* entries.
FrameMax(f) == IF f = <<>> THEN NaN ELSE Num(MaxOf(f))

\* line 106: Python's max(a, b) returns b when b > a and a otherwise, and
\* every comparison with NaN is false.
PyMax(a, b) == IF ~a.nan /\ ~b.nan /\ b.v > a.v THEN b ELSE a

CeilDiv(a, b) == (a + b - 1) \div b

\* line 109: int(np.ceil(maxes[profile.name] * padding_multiplier))
ResolvedSize(m) == CeilDiv(m.v * padding_multiplier, Den)

\* lines 79-85: the unresolved profiles, their maxes 0; return if none.
ResBegin ==
    /\ res_pc = "call"
    /\ unresolved' = {k \in DOMAIN object_profiles : IsUnresolved(object_profiles[k])}
    /\ maxes' = [k \in DOMAIN object_profiles |-> Num(0)]
    /\ res_pc' = IF unresolved' = {} THEN "returned" ELSE "dir"
    /\ UNCHANGED <<object_profiles, res_pairs, padding_multiplier, res_dir, res_file>>
    /\ UNCHANGED <<splitVars, planVars, genVars, preVars>>
    /\ UNCHANGED resOthers

\* lines 87-90: the next directory; getFiles_StoreType raises IOError for
\* a directory without files.
ResDir ==
    /\ res_pc = "dir"
    /\ res_dir < Len(res_pairs)
    /\ res_pc' = IF Len(res_pairs[res_dir + 1]) < 1 THEN "raised" ELSE "file"
    /\ res_file' = 0
    /\ UNCHANGED <<object_profiles, res_pairs, padding_multiplier, unresolved, maxes,
                   res_dir>>
    /\ UNCHANGED <<splitVars, planVars, genVars, preVars>>
    /\ UNCHANGED resOthers

\* lines 93-106: one file: the running maximum of every unresolved profile.
ResFile ==
    /\ res_pc = "file"
    /\ res_file < Len(res_pairs[res_dir + 1])
    /\ maxes' = [k \in DOMAIN maxes |->
                    IF k \in unresolved
                    THEN PyMax(FrameMax(res_pairs[res_dir + 1][res_file + 1]), maxes[k])
                    ELSE maxes[k]]
    /\ res_file' = res_file + 1
    /\ UNCHANGED <<object_profiles, res_pairs, padding_multiplier, unresolved,
                   res_dir, res_pc>>
    /\ UNCHANGED <<splitVars, planVars, genVars, preVars>>
    /\ UNCHANGED resOthers

\* line 93: the files of the directory are exhausted.
ResFilesEnd ==
    /\ res_pc = "file"
    /\ res_file >= Len(res_pairs[res_dir + 1])
    /\ res_dir' = res_dir + 1
    /\ res_pc' = "dir"
    /\ UNCHANGED <<object_profiles, res_pairs, padding_multiplier, unresolved, maxes,
                   res_file>>
    /\ UNCHANGED <<splitVars, planVars, genVars, preVars>>
    /\ UNCHANGED resOthers

\* lines 108-109: every unresolved profile gets its max_size; int() of NaN
\* raises ValueError, at the first unresolved profile.
ResAssign ==
    /\ res_pc = "dir"
    /\ res_dir >= Len(res_pairs)
    /\ IF \E k \in unresolved : maxes[k].nan
       THEN res_pc' = "raised" /\ UNCHANGED object_profiles
       ELSE /\ res_pc' = "returned"
            /\ object_profiles' =
                  [k \in DOMAIN object_profiles |->
                      IF k \in unresolved THEN <<ResolvedSize(maxes[k])>>
                      ELSE object_profiles[k]]
    /\ UNCHANGED <<res_pairs, padding_multiplier, unresolved, maxes, res_dir, res_file>>
    /\ UNCHANGED <<splitVars, planVars, genVars, preVars>>
    /\ UNCHANGED resOthers

NextRes ==
    \/ ResBegin
    \/ ResDir
    \/ ResFile
    \/ ResFilesEnd
    \/ ResAssign

SpecRes == InitRes /\ [][NextRes]_vars

(***************************************************************************)
(* Claims about the size resolver.                                         *)
(***************************************************************************)
\* The row counts of all entries of all files of all directories.
AllCounts ==
    UNION {UNION {{res_pairs[d][f][e] : e \in DOMAIN res_pairs[d][f]} :
                      f \in DOMAIN res_pairs[d]} : d \in DOMAIN res_pairs}

\* M: the largest of them (0 when there is no entry).
TrueMax ==
    IF AllCounts = {} THEN 0
    ELSE CHOOSE m \in AllCounts : \A c \in AllCounts : c <= m

\* C13 (as claimed): after the call has returned no profile has max_size -1
\* or None, and every profile that was unresolved has
\* max_size >= ceil(M * padding_multiplier).
C13_Resolved ==
    (res_pc = "returned") =>
        \A k \in DOMAIN object_profiles :
            /\ ~IsUnresolved(object_profiles[k])
            /\ k \in unresolved =>
                  object_profiles[k][1] >= CeilDiv(TrueMax * padding_multiplier, Den)

(***************************************************************************)
(* Export and import: XY_to_CSV / XY_from_CSV and XY_to_pickle /           *)
(* XY_from_pickle.  Text is held as the sequence of its character codes    *)
(* ("0".."9" are 48..57, "," is 44, "." is 46, "(" and ")" are 40 and 41,  *)
(* " " is 32, the newline is 10).  The directory is new: it holds the      *)
(* files of this export only.                                              *)
(***************************************************************************)
RECURSIVE Prod(_)
Prod(q) == IF q = <<>> THEN 1 ELSE q[1] * Prod(Tail(q))

\* The shapes of the model's arrays: one axis, two axes, no sample.
Shapes == {<<2>>, <<1, 2>>, <<2, 1>>, <<0, 3>>}

Arrays ==
    UNION {[shape : {sh}, data : [1..Prod(sh) -> 0..MaxVal]] : sh \in Shapes}

\* A list of n arrays of one value each, the i-th holding i.
LongList(n) == [k \in 1..n |-> [shape |-> <<1, 1>>, data |-> <<k>>]]

\* The inputs: short lists of any of the arrays, and the long lists.
XYInputs ==
    (SeqsUpTo(Arrays, 2) \X SeqsUpTo(Arrays, 1))
        \cup {<<LongList(n), <<>> >> : n \in 3..MaxArrays}

InitXY ==
    /\ \E in \in XYInputs : xy_X = in[1] /\ xy_Y = in[2]
    /\ xy_format \in {"csv", "pickle"}
    /\ xy_files = {}
    /\ xy_outX = <<>>
    /\ xy_outY = <<>>
    /\ xy_pc = "call"
    /\ SplitIdle
    /\ PlanIdle
    /\ GenIdle
    /\ PreIdle
    /\ ItemIdle
    /\ ResIdle
    /\ GdIdle
    /\ StIdle
    /\ DecIdle

\* str(n) of a whole number n >= 0
RECURSIVE Digits(_)
Digits(n) == IF n < 10 THEN <<48 + n>> ELSE Digits(n \div 10) \o <<48 + (n % 10)>>

\* ", ".join of the texts of q
RECURSIVE JoinDims(_)
JoinDims(q) ==
    IF Len(q) = 1 THEN Digits(q[1])
    ELSE Digits(q[1]) \o <<44, 32>> \o JoinDims(Tail(q))

\* str(shape) of a tuple: "(2,)" for one axis, "(1, 2)" for more.
ShapeStr(shape) ==
    <<40>> \o JoinDims(shape) \o (IF Len(shape) = 1 THEN <<44>> ELSE <<>>) \o <<41>>

\* line 718: "#Shape: "+str(shape)+"\n"
ShapeLine(shape) ==
    <<35, 83, 104, 97, 112, 101, 58, 32>> \o ShapeStr(shape) \o <<10>>

\* line 736: shape_str.split(",")
RECURSIVE Split(_)
Split(t) ==
    IF t = <<>> THEN << <<>> >>
    ELSE LET rest == Split(Tail(t))
         IN  IF Head(t) = 44 THEN << <<>> >> \o rest
             ELSE << <<Head(t)>> \o rest[1] >> \o Tail(rest)

IsDigit(c) == 48 <= c /\ c <= 57

\* line 736: re.sub("\D", "", s)
StripNonDigits(t) == SelectSeq(t, IsDigit)

\* int(s) of a text of digits; int("") raises ValueError.
RECURSIVE IntOfText(_)
IntOfText(t) ==
    IF t = <<>> THEN 0
    ELSE IntOfText(SubSeq(t, 1, Len(t) - 1)) * 10 + (t[Len(t)] - 48)

\* line 736: the pieces of the shape line, each stripped to its digits
ShapePieces(line) ==
    LET pieces == Split(line)
    IN  [k \in 1..Len(pieces) |-> StripNonDigits(pieces[k])]

\* lines 719-720: the rows np.savetxt writes: shape[0] rows of
\* prod(shape[1:]) values, each value as its text ("%.18e" holds every
\* digit of a double; the values of the model are whole numbers, written
\* by their digits).
SavedRows(arr) ==
    LET cols == Prod(Tail(arr.shape))
    IN  [r \in 1..arr.shape[1] |->
            [c \in 1..cols |-> Digits(arr.data[(r - 1) * cols + c])]]

\* lines 715-721: writeit
CsvFile(arr) == [line |-> ShapeLine(arr.shape), rows |-> SavedRows(arr)]

\* line 737: np.loadtxt: the values of all rows, in order
RECURSIVE LoadTxt(_)
LoadTxt(rows) ==
    IF rows = <<>> THEN <<>>
    ELSE [c \in 1..Len(rows[1]) |-> IntOfText(rows[1][c])] \o LoadTxt(Tail(rows))

\* lines 734-738: readit
CsvReadFails(file) == \E k \in DOMAIN ShapePieces(file.line) : ShapePieces(file.line)[k] = <<>>

CsvRead(file) ==
    [shape |-> [k \in DOMAIN ShapePieces(file.line) |-> IntOfText(ShapePieces(file.line)[k])],
     data |-> LoadTxt(file.rows)]

\* lines 716, 775: the file name str(i) + ".csv" (np.save makes it
\* str(i) + ".npy") after the prefix all names share, up to the "."
FileName(k) == Digits(k) \o <<46>>

\* The order of str: the first code that differs decides, a prefix comes
\* first.
RECURSIVE StrLess(_, _)
StrLess(a, b) ==
    IF b = <<>> THEN FALSE
    ELSE IF a = <<>> THEN TRUE
    ELSE IF a[1] # b[1] THEN a[1] < b[1]
    ELSE StrLess(Tail(a), Tail(b))

\* lines 745, 751, 796, 802: files.sort()
SortsBefore(a, b) == StrLess(a, b)

\* The files of directory sub, sorted by name.
RECURSIVE SortedFiles(_)
SortedFiles(fs) ==
    IF fs = {} THEN <<>>
    ELSE LET first == CHOOSE f \in fs :
                          \A g \in fs \ {f} : SortsBefore(f.name, g.name)
         IN  <<first>> \o SortedFiles(fs \ {first})

FilesOf(sub) == {f \in xy_files : f.sub = sub}

\* line 776: np.save keeps the shape and the values of the array as they are.
NpyFile(arr) == [shape |-> arr.shape, data |-> arr.data]

\* The files one export writes: "X_"+str(i) for i, x in enumerate(X).
Written(list, sub, format) ==
    {[sub |-> sub, name |-> FileName(k - 1),
      content |-> IF format = "csv" THEN CsvFile(list[k]) ELSE NpyFile(list[k])] :
        k \in DOMAIN list}

HasOneAxis(list) == \E k \in DOMAIN list : Len(list[k].shape) = 1

\* lines 700-726: XY_to_CSV.  For an array of one axis np.prod(shape[1:])
\* is the float 1.0, which np.reshape takes or refuses with the numpy at
\* hand.
XYToCSV ==
    /\ xy_pc = "call"
    /\ xy_format = "csv"
    /\ \/ /\ xy_files' = Written(xy_X, "X", "csv") \cup Written(xy_Y, "Y", "csv")
          /\ xy_pc' = "written"
       \/ /\ HasOneAxis(xy_X) \/ HasOneAxis(xy_Y)
          /\ xy_pc' = "raised"
          /\ UNCHANGED xy_files
    /\ UNCHANGED <<xy_X, xy_Y, xy_format, xy_outX, xy_outY>>
    /\ UNCHANGED <<splitVars, planVars, genVars, preVars>>
    /\ UNCHANGED xyOthers

\* lines 729-756: XY_from_CSV
XYFromCSV ==
    /\ xy_pc = "written"
    /\ xy_format = "csv"
    /\ IF \E f \in xy_files : CsvReadFails(f.content)
       THEN xy_pc' = "raised" /\ UNCHANGED <<xy_outX, xy_outY>>
       ELSE /\ xy_outX' = [k \in 1..Cardinality(FilesOf("X")) |->
                              CsvRead(SortedFiles(FilesOf("X"))[k].content)]
            /\ xy_outY' = [k \in 1..Cardinality(FilesOf("Y")) |->
                              CsvRead(SortedFiles(FilesOf("Y"))[k].content)]
            /\ xy_pc' = "read"
    /\ UNCHANGED <<xy_X, xy_Y, xy_format, xy_files>>
    /\ UNCHANGED <<splitVars, planVars, genVars, preVars>>
    /\ UNCHANGED xyOthers

\* lines 759-781: XY_to_pickle
XYToPickle ==
    /\ xy_pc = "call"
    /\ xy_format = "pickle"
    /\ xy_files' = Written(xy_X, "X", "npy") \cup Written(xy_Y, "Y", "npy")
    /\ xy_pc' = "written"
    /\ UNCHANGED <<xy_X, xy_Y, xy_format, xy_outX, xy_outY>>
    /\ UNCHANGED <<splitVars, planVars, genVars, preVars>>
    /\ UNCHANGED xyOthers

\* lines 783-807: XY_from_pickle
XYFromPickle ==
    /\ xy_pc = "written"
    /\ xy_format = "pickle"
    /\ xy_outX' = [k \in 1..Cardinality(FilesOf("X")) |->
                      SortedFiles(FilesOf("X"))[k].content]
    /\ xy_outY' = [k \in 1..Cardinality(FilesOf("Y")) |->
                      SortedFiles(FilesOf("Y"))[k].content]
    /\ xy_pc' = "read"
    /\ UNCHANGED <<xy_X, xy_Y, xy_format, xy_files>>
    /\ UNCHANGED <<splitVars, planVars, genVars, preVars>>
    /\ UNCHANGED xyOthers

NextXY ==
    \/ XYToCSV
    \/ XYFromCSV
    \/ XYToPickle
    \/ XYFromPickle

SpecXY == InitXY /\ [][NextXY]_vars

(***************************************************************************)
(* Claims about export and import.                                         *)
(***************************************************************************)
\* C14 (as claimed): for any lists X and Y of arrays, also lists of more
\* than ten arrays, the export followed by the import of the same format
\* ends without an error and returns lists of the same lengths whose i-th
\* array has the shape and the values of the i-th array exported.
C14_RoundTrip ==
    /\ xy_pc # "raised"
    /\ xy_pc = "read" => (xy_outX = xy_X /\ xy_outY = xy_Y)

(***************************************************************************)
(* getGensDefaultFormat and strideFromTargetSize.                          *)
(***************************************************************************)
\* line 480: the size of one cell, and 1000.0 * 1000.0
CellBytes == 24

Million == 1000000

\* line 451: the megabytes that getGensDefaultFormat hands on
HandedMegabytes == 500

\* The max_size of a profile: with one observable 12500 rows are 0.3 MB and
\* 6000000 rows are 144 MB.
GdMaxSizes == {0, 12500, 6000000}

\* The argument splits: up to two of the splits 1/Den, 2/Den, 1 and 2.
GdSplits == SeqsUpTo({1, 2, Den, 2 * Den}, 2)

InitGd ==
    /\ gd_megabytes \in (1..MaxMegabytes) \cup {HandedMegabytes}
    /\ gd_max_sizes \in SeqsUpTo(GdMaxSizes, 2)
    /\ gd_observ \in 0..2
    /\ gd_splits \in GdSplits
    /\ gd_length \in {0, MaxLength}
    /\ gd_batch_size \in 1..MaxBatch
    /\ gd_stride = 0
    /\ gd_SNs = <<>>
    /\ gd_k = 0
    /\ gd_all_dps = <<>>
    /\ gd_max_q = 0
    /\ gd_pc = "call"
    /\ SplitIdle
    /\ PlanIdle
    /\ GenIdle
    /\ PreIdle
    /\ ItemIdle
    /\ ResIdle
    /\ XYIdle
    /\ StIdle
    /\ DecIdle

\* line 480: sum(o.max_size ...) * len(observ_types) * 24.0, the bytes of
\* one sample; megabytes_per_sample is this over 1000.0 * 1000.0.
BytesPerSample(max_sizes, observ) == SumSeq(max_sizes) * observ * CellBytes

\* lines 480-481: int(megabytes/megabytes_per_sample)
strideFromTargetSize(max_sizes, observ, megabytes) ==
    (megabytes * Million) \div BytesPerSample(max_sizes, observ)

\* lines 592-612: procsFrom_label_dir_pairs, the windows of its tasks
RECURSIVE ProcsFrom(_, _, _)
ProcsFrom(ps, e, str) ==
    IF ps >= e THEN <<>>
    ELSE <<[proc_start |-> ps, proc_num |-> ProcNum(str, e, ps)]>>
             \o ProcsFrom(ps + str, e, str)

\* line 451: stride = strideFromTargetSize(..., megabytes=500); a sample of
\* no bytes raises ZeroDivisionError.
GdStride ==
    /\ gd_pc = "call"
    /\ IF BytesPerSample(gd_max_sizes, gd_observ) = 0
       THEN gd_pc' = "raised" /\ UNCHANGED gd_stride
       ELSE /\ gd_stride' = strideFromTargetSize(gd_max_sizes, gd_observ, HandedMegabytes)
            /\ gd_pc' = "split"
    /\ UNCHANGED <<gd_megabytes, gd_max_sizes, gd_observ, gd_splits, gd_length,
                   gd_batch_size, gd_SNs, gd_k, gd_all_dps, gd_max_q>>
    /\ UNCHANGED <<splitVars, planVars, genVars, preVars>>
    /\ UNCHANGED gdOthers

\* line 452: SNs = start_num_fromSplits(splits, length)
GdSplit ==
    /\ gd_pc = "split"
    /\ LET r == start_num_fromSplits(gd_splits, gd_length)
       IN  IF r.kind = "ok"
           THEN gd_SNs' = r.out /\ gd_pc' = "procs"
           ELSE gd_pc' = "raised" /\ UNCHANGED gd_SNs
    /\ gd_k' = 0
    /\ UNCHANGED <<gd_megabytes, gd_max_sizes, gd_observ, gd_splits, gd_length,
                   gd_batch_size, gd_stride, gd_all_dps, gd_max_q>>
    /\ UNCHANGED <<splitVars, planVars, genVars, preVars>>
    /\ UNCHANGED gdOthers

\* lines 455-467: one split: its tasks are planned with the stride;
\* range() raises ValueError for a stride of zero.
GdProcs ==
    /\ gd_pc = "procs"
    /\ gd_k < Len(gd_SNs)
    /\ IF gd_stride = 0
       THEN gd_pc' = "raised" /\ UNCHANGED <<gd_all_dps, gd_k>>
       ELSE /\ gd_all_dps' = gd_all_dps \o
                  ProcsFrom(gd_SNs[gd_k + 1].start,
                            gd_SNs[gd_k + 1].start + gd_SNs[gd_k + 1].num, gd_stride)
            /\ gd_k' = gd_k + 1
            /\ UNCHANGED gd_pc
    /\ UNCHANGED <<gd_megabytes, gd_max_sizes, gd_observ, gd_splits, gd_length,
                   gd_batch_size, gd_stride, gd_SNs, gd_max_q>>
    /\ UNCHANGED <<splitVars, planVars, genVars, preVars>>
    /\ UNCHANGED gdOthers

\* lines 469-470: max_q_size = max(ceil(stride/batch_size), 1), return
GdReturn ==
    /\ gd_pc = "procs"
    /\ gd_k >= Len(gd_SNs)
    /\ gd_max_q' = IF CeilDiv(gd_stride, gd_batch_size) > 1
                   THEN CeilDiv(gd_stride, gd_batch_size) ELSE 1
    /\ gd_pc' = "returned"
    /\ UNCHANGED <<gd_megabytes, gd_max_sizes, gd_observ, gd_splits, gd_length,
                   gd_batch_size, gd_stride, gd_SNs, gd_k, gd_all_dps>>
    /\ UNCHANGED <<splitVars, planVars, genVars, preVars>>
    /\ UNCHANGED gdOthers

NextGd ==
    \/ GdStride
    \/ GdSplit
    \/ GdProcs
    \/ GdReturn

SpecGd == InitGd /\ [][NextGd]_vars

(***************************************************************************)
(* Claims about getGensDefaultFormat.                                      *)
(***************************************************************************)
\* C15 (as claimed): the stride that chunks every split is
\* floor(megabytes / megabytes_per_sample) for the caller's megabytes, with
\* megabytes_per_sample the sum of the max_size times the number of
\* observables times the cell size, so no chunk holds more samples than
\* that.
C15_StrideFromMegabytes ==
    (gd_pc \in {"split", "procs", "returned"}) =>
        /\ gd_stride = (gd_megabytes * Million)
                           \div (SumSeq(gd_max_sizes) * gd_observ * CellBytes)
        /\ \A k \in DOMAIN gd_all_dps :
              gd_all_dps[k].proc_num <=
                  (gd_megabytes * Million)
                      \div (SumSeq(gd_max_sizes) * gd_observ * CellBytes)

(***************************************************************************)
(* The table stores of maxMutualLength and getNumValFrame.                 *)
(***************************************************************************)
\* A table file: its number of entries when it is sound, or what it lacks:
\* a key of a requested profile, or the NumValues table.
StFiles == [kind : {"ok"}, entries : 0..MaxCount]
               \cup [kind : {"nokeys", "nonumvalues"}, entries : {0}]

\* A directory: missing, or holding .h5 files, .msg files or both.
StDirs == [kind : {"hdf5", "msgpack", "both", "missing"},
           files : SeqsUpTo(StFiles, 2)]

InitSt ==
    /\ st_op \in {"maxMutualLength", "getNumValFrame"}
    /\ IF st_op = "maxMutualLength"
       THEN /\ st_dirs \in SeqsUpTo(StDirs, 2)
            /\ st_profiles \in BOOLEAN
            /\ st_pc = "dir"
       ELSE /\ st_dirs \in {<<[kind |-> k, files |-> <<f>>]>> :
                               k \in {"hdf5", "msgpack"}, f \in StFiles}
            /\ st_profiles = FALSE
            /\ st_pc = "call"
    /\ label_totals = <<>>
    /\ st_d = 0
    /\ st_f = 0
    /\ st_open = {}
    /\ st_result = <<>>
    /\ SplitIdle
    /\ PlanIdle
    /\ GenIdle
    /\ PreIdle
    /\ ItemIdle
    /\ ResIdle
    /\ XYIdle
    /\ GdIdle
    /\ DecIdle

\* lines 136-156: getFiles_StoreType raises IOError for a missing directory,
\* for one with both kinds of files and for an empty one.
StListFails(dir) == dir.kind \in {"both", "missing"} \/ dir.files = <<>>

\* min(label_totals.values())
MinOf(q) == CHOOSE m \in {q[ix] : ix \in DOMAIN q} : \A ix \in DOMAIN q : m <= q[ix]

\* lines 487-497: one label: its directory is listed and its total set to 0
MmlDir ==
    /\ st_op = "maxMutualLength"
    /\ st_pc = "dir"
    /\ st_d < Len(st_dirs)
    /\ IF StListFails(st_dirs[st_d + 1])
       THEN st_pc' = "raised" /\ UNCHANGED label_totals
       ELSE st_pc' = "file" /\ label_totals' = Append(label_totals, 0)
    /\ st_f' = 0
    /\ UNCHANGED <<st_op, st_dirs, st_profiles, st_d, st_open, st_result>>
    /\ UNCHANGED <<splitVars, planVars, genVars, preVars>>
    /\ UNCHANGED stOthers

\* lines 500-543: one file: an hdf5 file is opened as a store (line 504),
\* its keys are checked (508-511) and NumValues is fetched (513-516); a msg
\* file is read whole (522-526); the entries are added to the total. No line
\* closes the store.
MmlFile ==
    /\ st_op = "maxMutualLength"
    /\ st_pc = "file"
    /\ st_f < Len(st_dirs[st_d + 1].files)
    /\ LET dir == st_dirs[st_d + 1]
           f == dir.files[st_f + 1]
       IN  /\ st_open' = IF dir.kind = "hdf5"
                         THEN st_open \cup {<<st_d + 1, st_f + 1>>}
                         ELSE st_open
           /\ IF \/ dir.kind = "hdf5" /\ st_profiles /\ f.kind = "nokeys"
                 \/ f.kind = "nonumvalues"
              THEN st_pc' = "raised" /\ UNCHANGED <<label_totals, st_f>>
              ELSE /\ label_totals' =
                          [label_totals EXCEPT ![st_d + 1] = @ + f.entries]
                   /\ st_f' = st_f + 1
                   /\ UNCHANGED st_pc
    /\ UNCHANGED <<st_op, st_dirs, st_profiles, st_d, st_result>>
    /\ UNCHANGED <<splitVars, planVars, genVars, preVars>>
    /\ UNCHANGED stOthers

\* line 500: the loop over the files of a label ends
MmlDirEnd ==
    /\ st_op = "maxMutualLength"
    /\ st_pc = "file"
    /\ st_f >= Len(st_dirs[st_d + 1].files)
    /\ st_d' = st_d + 1
    /\ st_pc' = "dir"
    /\ UNCHANGED <<st_op, st_dirs, st_profiles, label_totals, st_f, st_open,
                   st_result>>
    /\ UNCHANGED <<splitVars, planVars, genVars, preVars>>
    /\ UNCHANGED stOthers

\* line 544: return min(label_totals.values()); min of nothing raises
\* ValueError.
MmlReturn ==
    /\ st_op = "maxMutualLength"
    /\ st_pc = "dir"
    /\ st_d >= Len(st_dirs)
    /\ IF label_totals = <<>>
       THEN st_pc' = "raised" /\ UNCHANGED st_result
       ELSE st_pc' = "returned" /\ st_result' = <<MinOf(label_totals)>>
    /\ UNCHANGED <<st_op, st_dirs, st_profiles, label_totals, st_d, st_f, st_open>>
    /\ UNCHANGED <<splitVars, planVars, genVars, preVars>>
    /\ UNCHANGED stOthers

\* lines 158-178: getNumValFrame: an hdf5 file is opened as a store (162);
\* when NumValues cannot be fetched IOError is raised (167-170) before the
\* close of line 171; a msg file is read without a store.
getNumValFrame ==
    /\ st_op = "getNumValFrame"
    /\ st_pc = "call"
    /\ LET dir == st_dirs[1]
           f == dir.files[1]
       IN  IF f.kind = "nonumvalues"
           THEN /\ st_pc' = "raised"
                /\ st_open' = IF dir.kind = "hdf5" THEN {<<1, 1>>} ELSE {}
                /\ UNCHANGED st_result
           ELSE /\ st_pc' = "returned"
                /\ st_open' = {}
                /\ st_result' = <<f.entries>>
    /\ UNCHANGED <<st_op, st_dirs, st_profiles, label_totals, st_d, st_f>>
    /\ UNCHANGED <<splitVars, planVars, genVars, preVars>>
    /\ UNCHANGED stOthers

NextSt ==
    \/ MmlDir
    \/ MmlFile
    \/ MmlDirEnd
    \/ MmlReturn
    \/ getNumValFrame

SpecSt == InitSt /\ [][NextSt]_vars

(***************************************************************************)
(* Claims about the table stores.                                          *)
(***************************************************************************)
\* C17 (as claimed): every table store an operation opens is closed before
\* it opens the next file and before it returns or fails: between two
\* files, and once the operation has ended, no store is open.
C17_StoresClosed == st_open = {} /\ open_stores = {}

(***************************************************************************)
(* ObjectProfile and its reconstitution from a dictionary.                 *)
(***************************************************************************)
\* The profiles that ObjectProfile.__init__ accepts: max_size at least -1,
\* addColumns None or a dictionary; the other fields are None (<<>>) or a
\* value (<<1>>), booleans, and a punctuation that is None or a number.
DecProfiles ==
    [max_size : -1..MaxSize,
     pre_sort_columns : {<<>>, <<1>>},
     pre_sort_ascending : BOOLEAN,
     sort_columns : {<<>>, <<1>>},
     sort_ascending : BOOLEAN,
     query : {<<>>, <<1>>},
     shuffle : BOOLEAN,
     addColumns : {PyNone} \cup [t : {"dict"}, v : {0, 1}],
     punctuation : {PyNone} \cup [t : {"num"}, v : 0..MaxVal]]

InitDec ==
    /\ dec_given \in DecProfiles
    /\ dec_isdict \in BOOLEAN
    /\ dec_profile = NoObject
    /\ dec_err = ""
    /\ dec_pc = "build"
    /\ SplitIdle
    /\ PlanIdle
    /\ GenIdle
    /\ PreIdle
    /\ ItemIdle
    /\ ResIdle
    /\ XYIdle
    /\ GdIdle
    /\ StIdle

\* lines 15-46: ObjectProfile.__init__ with its arguments after name in the
\* order of its signature: the error it raises ("" for none) and the object.
ObjectProfile(max_size, pre_sort_columns, pre_sort_ascending, sort_columns, sort_ascending, query, shuffle, addColumnsArg, punctuationArg) ==
    IF max_size < -1
    THEN [err |-> "ValueError:max_size", obj |-> NoObject]
    ELSE IF addColumnsArg.t # "none" /\ addColumnsArg.t # "dict"
    THEN [err |-> "ValueError:addColumns", obj |-> NoObject]
    ELSE [err |-> "",
          obj |-> [max_size |-> max_size,
                   pre_sort_columns |-> pre_sort_columns,
                   pre_sort_ascending |-> pre_sort_ascending,
                   sort_columns |-> sort_columns,
                   sort_ascending |-> sort_ascending,
                   query |-> query,
                   shuffle |-> shuffle,
                   addColumns |-> addColumnsArg,
                   punctuation |-> punctuationArg]]

\* lines 219-228: the call that rebuilds the profile: the ninth argument is
\* profile.get('punctuation') and the tenth profile.get('addColumns').
Reconstitute(d) ==
    ObjectProfile(d.max_size, d.pre_sort_columns, d.pre_sort_ascending,
                  d.sort_columns, d.sort_ascending, d.query, d.shuffle,
                  d.punctuation, d.addColumns)

\* lines 217-229: a dictionary of class_name "ObjectProfile" is rebuilt,
\* anything else is used as it is.
DecBuild ==
    /\ dec_pc = "build"
    /\ IF dec_isdict
       THEN LET r == Reconstitute(dec_given)
            IN  /\ dec_err' = r.err
                /\ dec_profile' = r.obj
                /\ dec_pc' = IF r.err = "" THEN "check" ELSE "raised"
       ELSE /\ dec_profile' = dec_given
            /\ dec_pc' = "check"
            /\ UNCHANGED dec_err
    /\ UNCHANGED <<dec_given, dec_isdict>>
    /\ UNCHANGED <<splitVars, planVars, genVars, preVars>>
    /\ UNCHANGED decOthers

\* lines 230-236: max_size must be resolved, and every key of addColumns
\* must be one of observ_types.
DecCheck ==
    /\ dec_pc = "check"
    /\ IF dec_profile.max_size = -1
       THEN dec_pc' = "raised" /\ dec_err' = "ValueError:unresolved"
       ELSE IF dec_profile.addColumns.t # "none" /\ dec_profile.addColumns.v = 0
       THEN dec_pc' = "raised" /\ dec_err' = "ValueError:addColumnKey"
       ELSE dec_pc' = "ok" /\ UNCHANGED dec_err
    /\ UNCHANGED <<dec_given, dec_isdict, dec_profile>>
    /\ UNCHANGED <<splitVars, planVars, genVars, preVars>>
    /\ UNCHANGED decOthers

NextDec ==
    \/ DecBuild
    \/ DecCheck

SpecDec == InitDec /\ [][NextDec]_vars

(***************************************************************************)
(* Claims about the reconstitution.                                        *)
(***************************************************************************)
\* C20 (as claimed): a profile passed as a dictionary is rebuilt without an
\* error from ObjectProfile, and every field of the ObjectProfile built is
\* the dictionary's value for that field.
C20_Reconstituted ==
    (dec_isdict /\ dec_pc \in {"check", "ok", "raised"}) =>
        /\ dec_err \notin {"ValueError:max_size", "ValueError:addColumns"}
        /\ dec_profile = dec_given

(***************************************************************************)
(* The progress of genFromDPs.                                             *)
(***************************************************************************)
\* lines 642-669: a step of the generator's own body between two yields.
\* The consumer's next() (GenFirstPull, GenPull) is not among them.
GenStep ==
    \/ GenPassThreaded
    \/ GenPassPlain
    \/ GenPassEnd
    \/ GenTakePrefetched
    \/ GenGetData
    \/ GenSliceNone
    \/ GenYield
    \/ GenChunkEnd

\* A generator that has been resumed keeps running, and so does every thread
\* that was started; the consumer may stop pulling at any time.
SpecGenFair ==
    /\ InitGen
    /\ [][NextGen]_vars
    /\ WF_vars(GenStep)
    /\ WF_vars(WorkerRun)
    /\ WF_vars(OrphanRun)

\* The generator is inside a next(): resumed, and neither suspended at a
\* yield nor left by an exception.
InPull == gen_pc \in {"pass", "for", "slice"}

\* C21 (as claimed): every pull by the consumer eventually yields a batch
\* or raises an error, also for an empty list of tasks and for a list
\* whose chunks all hold no sample.
C21_Progress == InPull ~> (gen_pc \in {"yielded", "raised"})

=============================================================================
